---- MODULE Spec2Model ----
(***************************************************************************)
(* Illutix Tundra: resource-bounded ingestion of files, API responses and  *)
(* SQL results (parse mode) and file conversion (conversion mode).         *)
(*                                                                         *)
(* Sizes are counted in abstract payload units.  A file payload of R data  *)
(* rows is R+1 units long: CSV/TSV is a header unit followed by one unit   *)
(* per row, JSON/GeoJSON is one unit per row followed by the unit that     *)
(* closes the document.  The byte budgets are scaled to this unit while    *)
(* keeping the order and the non-divisibility of the source's numbers      *)
(* (chunk < preview budget < full budget < conversion budget, no budget a  *)
(* multiple of the chunk size).                                            *)
(*                                                                         *)
(* Requests run as asyncio tasks: a task is atomic between two awaits, so  *)
(* every action below is the code between two awaits of one task.          *)
(***************************************************************************)
EXTENDS Integers, Sequences, FiniteSets, TLC

VARIABLES req,    \* request id -> the task's locals and its position
          src,    \* URL -> what the remote server holds (fixed once first used)
          dir,    \* temp directory: path -> inode id (0: no such file)
          inode,  \* inode id -> file content (a sequence of payload units)
          now,    \* the wall clock, in sweep intervals
          mtime,  \* path -> st_mtime of the file at that path
          task    \* the background cleanup task of lifespan

vars == <<req, src, dir, inode, now, mtime, task>>

---------------------------------------------------------------------------
(* Program constants (scaled, see above) *)

CHUNK_SIZE == 3
PREVIEW_MAX_DOWNLOAD == 4
FULL_MAX_DOWNLOAD == 7
MAX_DOWNLOAD_SIZE == 8
MAX_PREVIEW_ROWS == 10000

(* Bounds of the model *)

MaxSrc == 9
SrcCols == 2

---------------------------------------------------------------------------
(* Payload units *)

HOLE == 0
HDR == 0 - 1
CLOSE == 0 - 2
BAD == 0 - 3
(* The end of a JSON document whose top-level "type" is "Feature", and of  *)
(* one without a top-level "type" (CLOSE: "FeatureCollection").            *)
CLOSE_FEATURE == 0 - 4
CLOSE_UNTYPED == 0 - 5

NoHeader == 0 - 1

Min(a, b) == IF a < b THEN a ELSE b
Max(a, b) == IF a > b THEN a ELSE b

Iota(n) == [i \in 1..n |-> i]

(* The document a server holds: fmt, total units, validity. *)
Closer(s) ==
  IF ~s.valid THEN BAD
  ELSE IF s.top = "FeatureCollection" THEN CLOSE
  ELSE IF s.top = "Feature" THEN CLOSE_FEATURE
  ELSE CLOSE_UNTYPED

Payload(s) ==
  IF s.total = 0 THEN <<>>
  ELSE IF s.fmt \in {"csv", "tsv"} THEN <<HDR>> \o s.doc
  ELSE s.doc \o <<Closer(s)>>

(* A source of t units: its rows (or features) are numbered 1..t-1. *)
Source(f, t, c, v) ==
  [fmt |-> f, total |-> t, clen |-> c, valid |-> v, top |-> "FeatureCollection",
   doc |-> IF t = 0 THEN <<>> ELSE Iota(t - 1)]

NoSource == Source("none", 0, NoHeader, TRUE)

Sources ==
  { Source(f, t, c, v) :
      f \in {"csv", "tsv", "json", "geojson"}, t \in 0..MaxSrc,
      c \in {NoHeader, 0, MaxSrc + 1}, v \in BOOLEAN }
  \cup
  { Source(f, t, t, v) :
      f \in {"csv", "tsv", "json", "geojson"}, t \in 0..MaxSrc, v \in BOOLEAN }

LimitInputs == {0 - 1, 0, 1, 2, MAX_PREVIEW_ROWS, MAX_PREVIEW_ROWS + 1}

SupportedFormats == {"csv", "json", "tsv", "geojson"}

---------------------------------------------------------------------------
(* Result envelopes.  keys / meta_keys are the keys the returned dict and  *)
(* its metadata dict hold; a field whose key is absent is a placeholder.   *)

NoResult ==
  [returned |-> FALSE, success |-> FALSE, keys |-> {}, error |-> "", data |-> <<>>,
   metadata |-> [meta_keys |-> {}, row_count |-> 0, column_count |-> 0,
                 was_truncated |-> FALSE,
                 columns |-> {}, schema |-> {}]]

(* except Exception as e: return {"success": False, "error": str(e), ...} *)
ParseFailure(msg) ==
  [returned |-> TRUE, success |-> FALSE, keys |-> {"success", "error", "data", "metadata"},
   error |-> msg, data |-> <<>>,
   metadata |-> [meta_keys |-> {"row_count", "column_count"}, row_count |-> 0,
                 column_count |-> 0, was_truncated |-> FALSE,
                 columns |-> {}, schema |-> {}]]

ParseSuccess(rows, ncols, truncated) ==
  [returned |-> TRUE, success |-> TRUE, keys |-> {"success", "data", "metadata"},
   error |-> "", data |-> rows,
   metadata |-> [meta_keys |-> {"row_count", "column_count", "columns", "schema",
                                "was_truncated"},
                 row_count |-> Len(rows), column_count |-> ncols,
                 was_truncated |-> truncated,
                 columns |-> {}, schema |-> {}]]

(* The empty-table envelope of the GeoJSON, API and SQL parsers. *)
ParseEmpty ==
  [returned |-> TRUE, success |-> TRUE, keys |-> {"success", "data", "metadata"},
   error |-> "", data |-> <<>>,
   metadata |-> [meta_keys |-> {"row_count", "column_count"}, row_count |-> 0,
                 column_count |-> 0, was_truncated |-> FALSE,
                 columns |-> {}, schema |-> {}]]

(* The GeoJSON envelope of the URL path: columns, schema and column_count *)
(* are taken from the given column names (modelled for GeoJSON tables      *)
(* only).                                                                  *)
GeoSuccess(rows, columns, truncated) ==
  [returned |-> TRUE, success |-> TRUE, keys |-> {"success", "data", "metadata"},
   error |-> "", data |-> rows,
   metadata |-> [meta_keys |-> {"row_count", "column_count", "columns", "schema",
                                "was_truncated", "geo_fields", "hidden_fields"},
                 row_count |-> Len(rows), column_count |-> Cardinality(columns),
                 was_truncated |-> truncated,
                 columns |-> columns, schema |-> columns]]

---------------------------------------------------------------------------
(* The table library.  DataFrame.head(n) keeps the first n rows and, for   *)
(* n < 0, all rows but the last |n|.  strict is the library's answer where *)
(* the repository does not decide it: whether an input without any data    *)
(* and a negative lazy head raise (TRUE) or give an empty / shortened      *)
(* table (FALSE).                                                          *)

head(s, n) ==
  IF n >= 0 THEN SubSeq(s, 1, Min(n, Len(s)))
  ELSE SubSeq(s, 1, Max(Len(s) + n, 0))

Raised(msg) == [ok |-> FALSE, err |-> msg, rows |-> <<>>, ncols |-> 0]
Table(rows, ncols) == [ok |-> TRUE, err |-> "", rows |-> rows, ncols |-> ncols]

(* What a read of temp_path sees. *)
FileAt(d, ino, path) ==
  IF d[path] = 0 THEN [exists |-> FALSE, content |-> <<>>]
  ELSE [exists |-> TRUE, content |-> ino[d[path]]]

IsJsonDocument(content) ==
  /\ Len(content) >= 1
  /\ content[Len(content)] \in {CLOSE, CLOSE_FEATURE, CLOSE_UNTYPED}
  /\ \A i \in 1..(Len(content) - 1) : content[i] >= 1

(* pl.scan_csv(temp_path, ..., ignore_errors=True) [.head(limit)] .collect() *)
scan_csv_collect(file, preview, limit, strict) ==
  IF ~file.exists THEN Raised("No such file or directory")
  ELSE IF file.content = <<>> THEN
    IF strict THEN Raised("empty CSV") ELSE Table(<<>>, 0)
  ELSE LET rows == Tail(file.content)
           capped == preview \/ (limit # 0 /\ limit > 0)
       IN IF ~capped THEN Table(rows, SrcCols)
          ELSE IF limit < 0 /\ strict THEN Raised("negative slice lengths are invalid")
          ELSE Table(head(rows, limit), SrcCols)

(* pl.read_json(temp_path) *)
read_json(file, strict) ==
  IF ~file.exists THEN Raised("No such file or directory")
  ELSE IF ~IsJsonDocument(file.content) THEN Raised("could not parse JSON")
  ELSE LET rows == SubSeq(file.content, 1, Len(file.content) - 1)
       IN IF rows = <<>> THEN (IF strict THEN Raised("empty JSON") ELSE Table(<<>>, 0))
          ELSE Table(rows, SrcCols)

---------------------------------------------------------------------------
(* FileParser: the code that runs once the download has returned, with the *)
(* envelope parse_from_url makes of an exception.                          *)

csv_was_truncated(preview, limit, n) == preview \/ (limit # 0 /\ n = limit)

_parse_csv_native(file, preview, limit, strict) ==
  LET df == scan_csv_collect(file, preview, limit, strict)
  IN IF ~df.ok THEN ParseFailure(df.err)
     ELSE ParseSuccess(df.rows, df.ncols, csv_was_truncated(preview, limit, Len(df.rows)))

_parse_json_native(file, preview, limit, strict) ==
  LET df == read_json(file, strict)
  IN IF ~df.ok THEN ParseFailure(df.err)
     ELSE IF preview /\ Len(df.rows) > limit
          THEN ParseSuccess(head(df.rows, limit), df.ncols, TRUE)
          ELSE ParseSuccess(df.rows, df.ncols, FALSE)

---------------------------------------------------------------------------
(* GeoJSON values.  A value of a row is a tagged scalar; a geometry is     *)
(* named by its index in Geometries, a property dict by its index in       *)
(* PropertyDicts, a feature by its index in FeatureKinds.                  *)

IntV(n) == [k |-> "int", n |-> n, s |-> ""]
StrV(str) == [k |-> "str", n |-> 0, s |-> str]
BoolV(b) == [k |-> "bool", n |-> IF b THEN 1 ELSE 0, s |-> ""]
(* f"Feature {i + 1}" *)
FeatureName(i) == [k |-> "str", n |-> i + 1, s |-> "Feature "]
(* the geometry dict itself, and json.dumps(geometry) *)
GeomV(g) == [k |-> "geometry", n |-> g, s |-> ""]
GeomJsonV(g) == [k |-> "str", n |-> g, s |-> "geometry json"]

(* Python truthiness of a scalar. *)
TruthyV(v) == IF v.k = "str" THEN v.s # "" ELSE v.n # 0

JNum == [t |-> "num", items |-> <<>>, fields |-> <<>>]
(* A JSON null, decoded as None. *)
JNull == [t |-> "null", items |-> <<>>, fields |-> <<>>]
Position2 == [t |-> "list", items |-> <<JNum, JNum>>, fields |-> <<>>]
Position3 == [t |-> "list", items |-> <<JNum, JNum, JNum>>, fields |-> <<>>]
CoordList(items) == [t |-> "list", items |-> items, fields |-> <<>>]
Ring == CoordList(<<Position2, Position2, Position2, Position2>>)

Geometry(type, coordinates) ==
  [has_type |-> TRUE, type |-> type, has_coordinates |-> TRUE, coordinates |-> coordinates]
EmptyGeometry ==
  [has_type |-> FALSE, type |-> "", has_coordinates |-> FALSE, coordinates |-> JNum]

Geometries ==
  << Geometry("Point", Position2),
     Geometry("Point", Position3),
     Geometry("LineString", CoordList(<<Position2, Position2>>)),
     Geometry("Polygon", CoordList(<<Ring>>)),
     Geometry("Polygon", CoordList(<<Ring, Ring>>)),
     EmptyGeometry,
     [EmptyGeometry EXCEPT !.has_type = TRUE, !.type = "GeometryCollection"],
     Geometry("MultiPolygon", CoordList(<<CoordList(<<Ring>>)>>)),
     Geometry("MultiLineString", CoordList(<<CoordList(<<Position2, Position2, Position2>>)>>)),
     [EmptyGeometry EXCEPT !.has_coordinates = TRUE, !.coordinates = Position2] >>

EmptyDict == [key \in {} |-> IntV(0)]

PropertyDicts ==
  << EmptyDict,
     "name" :> StrV("Oslo"),
     "NAME" :> StrV("Rome"),
     ("name" :> StrV("")) @@ ("NAME" :> StrV("Rome")),
     "feature_id" :> IntV(99),
     "geometry_type" :> StrV("Custom"),
     "area_type" :> StrV("Custom"),
     "coordinate_count" :> IntV(77),
     "has_interior_rings" :> BoolV(TRUE),
     "population" :> IntV(5),
     "_note" :> StrV("internal") >>

(* feature.get(key, {}): the key is absent, its value is null, or it is    *)
(* the dict with that index.                                               *)
ABSENT == 0
NULL == 0 - 1

Feature(p, g) == [properties |-> p, geometry |-> g]

FeatureKinds ==
  << Feature(1, 1), Feature(2, 3), Feature(3, 4), Feature(4, 5), Feature(5, 1),
     Feature(6, 1), Feature(7, 1), Feature(8, 1), Feature(9, 4), Feature(10, 2),
     Feature(11, 8), Feature(ABSENT, ABSENT), Feature(1, NULL), Feature(NULL, 1),
     Feature(1, 7), Feature(1, 9), Feature(1, 10), Feature(1, 6) >>

(* The feature a payload unit stands for. *)
FeatureOf(unit) == FeatureKinds[((unit - 1) % Len(FeatureKinds)) + 1]

(* Column names with the reserved prefix: col.startswith('_'). *)
StartsWithUnderscore(col) == col \in {"_geometry", "_feature_index", "_note", "_empty"}

Merge_KeepFirst(a, b) ==
  [key \in DOMAIN a \cup DOMAIN b |-> IF key \in DOMAIN a THEN a[key] ELSE b[key]]

(* {**a, **b}: a later key replaces an earlier one. *)
Merge(a, b) ==
  [key \in DOMAIN a \cup DOMAIN b |-> IF key \in DOMAIN b THEN b[key] ELSE a[key]]

(* FileParser._classify_geo_feature(geometry.get("type")) *)
_classify_geo_feature(geometry) ==
  IF ~geometry.has_type THEN "Geographic Feature"
  ELSE IF geometry.type = "Point" THEN "Location"
  ELSE IF geometry.type \in {"LineString", "MultiLineString"} THEN "Route/Boundary"
  ELSE IF geometry.type \in {"Polygon", "MultiPolygon"} THEN "Area/Region"
  ELSE "Geographic Feature"

RECURSIVE SumSeq(_)
SumSeq(ns) == IF ns = <<>> THEN 0 ELSE Head(ns) + SumSeq(Tail(ns))

RECURSIVE count_recursive(_)
count_recursive(coords) ==
  IF coords.t # "list" THEN 0
  ELSE IF Len(coords.items) = 2 /\ \A x \in 1..2 : coords.items[x].t = "num" THEN 1
  ELSE SumSeq([x \in 1..Len(coords.items) |-> count_recursive(coords.items[x])])

_count_coordinates_Shallow(geometry) ==
  IF geometry.has_coordinates THEN 1 ELSE 0

(* FileParser._count_coordinates; an empty dict is falsy. *)
_count_coordinates(geometry) ==
  IF (~geometry.has_type /\ ~geometry.has_coordinates) \/ ~geometry.has_coordinates
  THEN 0
  ELSE count_recursive(geometry.coordinates)

(* FileParser._has_interior_rings *)
_has_interior_rings(geometry) ==
  /\ geometry.has_type
  /\ geometry.type = "Polygon"
  /\ geometry.has_coordinates
  /\ Len(geometry.coordinates.items) > 1

(* feature.get("properties", {}) and feature.get("geometry", {}) return    *)
(* None for a null value; the first .get on None raises AttributeError.    *)
FeatureRaises(feature) == feature.properties = NULL \/ feature.geometry = NULL

properties_of(feature) ==
  IF feature.properties = ABSENT THEN EmptyDict ELSE PropertyDicts[feature.properties]

geometry_of(feature) ==
  IF feature.geometry = ABSENT THEN EmptyGeometry ELSE Geometries[feature.geometry]

(* properties.get("name") or properties.get("NAME") or f"Feature {i + 1}" *)
feature_name(properties, i) ==
  IF "name" \in DOMAIN properties /\ TruthyV(properties["name"]) THEN properties["name"]
  ELSE IF "NAME" \in DOMAIN properties /\ TruthyV(properties["NAME"]) THEN properties["NAME"]
  ELSE FeatureName(i)

row_head_ZeroBased(i, properties, geometry) ==
  ("feature_id" :> IntV(i))
  @@ ("name" :> feature_name(properties, i))
  @@ ("geometry_type" :> StrV(IF geometry.has_type THEN geometry.type ELSE "Unknown"))
  @@ ("area_type" :> StrV(_classify_geo_feature(geometry)))

(* The keys of the row literal written before **properties. *)
row_head(i, properties, geometry) ==
  ("feature_id" :> IntV(i + 1))
  @@ ("name" :> feature_name(properties, i))
  @@ ("geometry_type" :> StrV(IF geometry.has_type THEN geometry.type ELSE "Unknown"))
  @@ ("area_type" :> StrV(_classify_geo_feature(geometry)))

(* The keys of the row literal written after **properties. *)
row_tail(i, geometry, geometry_value) ==
  ("coordinate_count" :> IntV(_count_coordinates(geometry)))
  @@ ("has_interior_rings" :> BoolV(_has_interior_rings(geometry)))
  @@ ("_geometry" :> geometry_value)
  @@ ("_feature_index" :> IntV(i))

(* row = {feature_id, name, geometry_type, area_type, **properties,        *)
(*        coordinate_count, has_interior_rings, _geometry, _feature_index} *)
geo_row(i, feature) ==
  LET properties == properties_of(feature)
      geometry == geometry_of(feature)
  IN Merge(Merge(row_head(i, properties, geometry), properties),
           row_tail(i, geometry, GeomV(feature.geometry)))

RECURSIVE geo_loop(_, _, _, _, _)
geo_loop(features, i, preview, limit, business_data) ==
  IF i >= Len(features) THEN Table(business_data, 0)
  ELSE IF preview /\ i >= limit THEN Table(business_data, 0)
  ELSE IF FeatureRaises(features[i + 1])
  THEN Raised("'NoneType' object has no attribute 'get'")
  ELSE geo_loop(features, i + 1, preview, limit,
                Append(business_data, geo_row(i, features[i + 1])))

_process_geojson_features_Untyped(geo_data, preview, limit) ==
  geo_loop(geo_data.features, 0, preview, limit, <<>>)

_process_geojson_features(geo_data, preview, limit) ==
  IF geo_data.type # "FeatureCollection"
  THEN Raised("Invalid GeoJSON: Expected FeatureCollection")
  ELSE geo_loop(geo_data.features, 0, preview, limit, <<>>)

(* json.load(f) *)
json_load(file) ==
  IF ~file.exists THEN Raised("No such file or directory")
  ELSE IF ~IsJsonDocument(file.content) THEN Raised("Expecting value")
  ELSE Table(SubSeq(file.content, 1, Len(file.content) - 1), 0)

(* The decoded document as a dict: its "type" and its "features". *)
geo_document(content) ==
  [type |-> IF content[Len(content)] = CLOSE THEN "FeatureCollection"
            ELSE IF content[Len(content)] = CLOSE_FEATURE THEN "Feature"
            ELSE "None",
   features |-> [x \in 1..(Len(content) - 1) |-> FeatureOf(content[x])]]

(* df.columns of pl.DataFrame(business_data) *)
Columns(rows) == UNION {DOMAIN rows[x] : x \in 1..Len(rows)}

VisibleColumns(rows) == {col \in Columns(rows) : ~StartsWithUnderscore(col)}

geo_was_truncated(preview, limit, n) == preview /\ n >= limit

_parse_geojson_controlled(file, preview, limit) ==
  LET doc == json_load(file)
      business_data == _process_geojson_features(geo_document(file.content),
                                                 preview, limit)
  IN IF ~doc.ok THEN ParseFailure(doc.err)
     ELSE IF ~business_data.ok THEN ParseFailure(business_data.err)
     ELSE IF business_data.rows # <<>>
          THEN GeoSuccess(business_data.rows, VisibleColumns(business_data.rows),
                          geo_was_truncated(preview, limit, Len(business_data.rows)))
          ELSE ParseEmpty

parse_from_url(file, file_format, preview, limit, strict) ==
  IF file_format \in {"csv", "tsv"} THEN _parse_csv_native(file, preview, limit, strict)
  ELSE IF file_format = "json" THEN _parse_json_native(file, preview, limit, strict)
  ELSE IF file_format = "geojson" THEN _parse_geojson_controlled(file, preview, limit)
  ELSE ParseFailure("Unsupported format")

---------------------------------------------------------------------------
(* The temp directory *)

(* temp_dir / f"polars_{md5(url)[:12]}.tmp": a function of the URL only. *)
temp_path(url) == <<"polars", url>>

Paths == {temp_path(u) : u \in DOMAIN src}

unlink(d, path) == [d EXCEPT ![path] = 0]

(* f.write(data) at the writer's own offset; a gap reads as zero bytes. *)
WriteAt(content, pos, data) ==
  [i \in 1..Max(Len(content), pos + Len(data)) |->
     IF i > pos /\ i <= pos + Len(data) THEN data[i - pos]
     ELSE IF i <= Len(content) THEN content[i] ELSE HOLE]

---------------------------------------------------------------------------
(* Request headers and credentials.  A header map is a function from       *)
(* header names to header values; a header value is a scheme, a text and,  *)
(* for base64.b64encode(f"{username}:{password}"), the encoded pair.       *)

HeaderValue(scheme, text, b64) == [scheme |-> scheme, text |-> text, b64 |-> b64]
Plain(text) == HeaderValue("", text, <<>>)

NoHeaders == [name \in {} |-> Plain("")]

(* The headers a caller passes to /parse/api and to ApiConverter. *)
CallerHeaders ==
  { NoHeaders,
    "Authorization" :> Plain("caller"),
    ("X-API-Key" :> Plain("caller")) @@ ("X-Trace" :> Plain("t1")),
    ("X-Token" :> Plain("caller")) @@ ("Accept" :> Plain("text/csv")) }

(* json.loads(cred_value): a JSONDecodeError, a value that is no object,   *)
(* or an object with its string fields.                                    *)
JsonError == [t |-> "error", fields |-> NoHeaders]
JsonOther == [t |-> "other", fields |-> NoHeaders]
JsonObject(fields) == [t |-> "object", fields |-> fields]

(* A credential value: the raw string and what json.loads makes of it. *)
CredValue(raw, json) == [has |-> TRUE, raw |-> raw, json |-> json]
NoValue == [has |-> FALSE, raw |-> "", json |-> JsonError]

CredValues ==
  { NoValue,
    CredValue("", JsonError),
    CredValue("s3cr3t", JsonError),
    CredValue("12345", JsonOther),
    CredValue("[1]", JsonOther),
    CredValue("{apiKey}", JsonObject("apiKey" :> Plain("K1"))),
    CredValue("{header,apiKey}",
              JsonObject(("header" :> Plain("X-Token")) @@ ("apiKey" :> Plain("K1")))),
    CredValue("{header}", JsonObject("header" :> Plain("X-Token"))),
    CredValue("{username,password}",
              JsonObject(("username" :> Plain("alice")) @@ ("password" :> Plain("pw")))),
    CredValue("{username}", JsonObject("username" :> Plain("alice"))) }

(* credentials.get("type"): "none" when the key is missing. *)
CredTypes == {"bearer", "api-key", "basic", "oauth2", "none"}

NoCredentials == [given |-> FALSE, type |-> "none", value |-> NoValue]

Credentials ==
  {NoCredentials}
  \cup {[given |-> TRUE, type |-> t, value |-> v] : t \in CredTypes, v \in CredValues}

(* headers[name] = value *)
SetHeader(headers, name, value) == (name :> value) @@ headers

(* What the body of a try block leaves: the headers, and the exception     *)
(* that left it ("" for none).                                             *)
Tried(headers, exc) == [headers |-> headers, exc |-> exc]

(* The branch of _add_auth_headers for "basic", the same in both adapters. *)
basic_auth(headers, cred_value) ==
  LET parsed == cred_value.json
  IN IF parsed.t = "error"
     THEN Tried(SetHeader(headers, "Authorization",
                          HeaderValue("Basic", cred_value.raw, <<>>)), "")
     ELSE IF parsed.t # "object" THEN Tried(headers, "TypeError")
     ELSE IF ~({"username", "password"} \subseteq DOMAIN parsed.fields)
     THEN Tried(SetHeader(headers, "Authorization",
                          HeaderValue("Basic", cred_value.raw, <<>>)), "")
     ELSE Tried(SetHeader(headers, "Authorization",
                          HeaderValue("Basic", "",
                                      <<parsed.fields["username"].text,
                                        parsed.fields["password"].text>>)), "")

(* The try block of ApiParser._add_auth_headers. *)
api_auth_try(headers, credentials) ==
  LET cred_type == credentials.type
      cred_value == credentials.value
      parsed == cred_value.json
      header_name == IF "header" \in DOMAIN parsed.fields
                     THEN parsed.fields["header"].text ELSE "X-API-Key"
  IN IF cred_type = "bearer"
     THEN Tried(SetHeader(headers, "Authorization",
                          HeaderValue("Bearer", cred_value.raw, <<>>)), "")
     ELSE IF cred_type = "api-key" THEN
       IF parsed.t = "error"
       THEN Tried(SetHeader(headers, "X-API-Key", Plain(cred_value.raw)), "")
       ELSE IF parsed.t # "object" THEN Tried(headers, "AttributeError")
       ELSE IF "apiKey" \notin DOMAIN parsed.fields
       THEN Tried(SetHeader(headers, "X-API-Key", Plain(cred_value.raw)), "")
       ELSE Tried(SetHeader(headers, header_name, parsed.fields["apiKey"]), "")
     ELSE IF cred_type = "basic" THEN basic_auth(headers, cred_value)
     ELSE Tried(headers, "")

(* The try block of SqlParser._add_auth_headers. *)
sql_auth_try(headers, credentials) ==
  LET cred_type == credentials.type
      cred_value == credentials.value
  IN IF cred_type = "bearer"
     THEN Tried(SetHeader(headers, "Authorization",
                          HeaderValue("Bearer", cred_value.raw, <<>>)), "")
     ELSE IF cred_type = "api-key"
     THEN Tried(SetHeader(headers, "X-API-Key", Plain(cred_value.raw)), "")
     ELSE IF cred_type = "basic" THEN basic_auth(headers, cred_value)
     ELSE Tried(headers, "")

_add_auth_headers_Unguarded(adapter, headers, credentials) ==
  IF ~credentials.value.has \/ credentials.value.raw = "" THEN Tried(headers, "")
  ELSE IF adapter = "api" THEN api_auth_try(headers, credentials)
  ELSE sql_auth_try(headers, credentials)

(* _add_auth_headers of ApiParser and of SqlParser: an empty value returns *)
(* at once; except Exception logs what the try block raised and returns.   *)
_add_auth_headers(adapter, headers, credentials) ==
  IF ~credentials.value.has \/ credentials.value.raw = "" THEN Tried(headers, "")
  ELSE LET tried == IF adapter = "api" THEN api_auth_try(headers, credentials)
                    ELSE sql_auth_try(headers, credentials)
       IN Tried(tried.headers, "")

Accept == "Accept" :> Plain("application/json")

api_request_headers_AuthFirst(headers, credentials) ==
  LET auth == IF credentials.given
              THEN _add_auth_headers("api", Accept, credentials)
              ELSE Tried(Accept, "")
  IN Tried(headers @@ auth.headers, auth.exc)

(* ApiParser.parse_api_data: {"Accept": ...}, update(headers), then        *)
(* _add_auth_headers.                                                      *)
api_request_headers(headers, credentials) ==
  LET request_headers == headers @@ Accept
  IN IF credentials.given THEN _add_auth_headers("api", request_headers, credentials)
     ELSE Tried(request_headers, "")

(* SqlParser.execute_query: the two fixed headers, then _add_auth_headers. *)
sql_request_headers(credentials) ==
  LET headers == ("Content-Type" :> Plain("application/json")) @@ Accept
  IN IF credentials.given THEN _add_auth_headers("sql", headers, credentials)
     ELSE Tried(headers, "")

(* ApiConverter._get_auth_headers: a placeholder that returns {}. *)
_get_auth_headers(credentials_id) == NoHeaders

(* ApiConverter._fetch_api_data: request_headers.update(auth_headers) *)
convert_request_headers(headers, credentials_id) ==
  LET request_headers == headers @@ Accept
  IN IF credentials_id # "" THEN _get_auth_headers(credentials_id) @@ request_headers
     ELSE request_headers

---------------------------------------------------------------------------
(* lifespan: the cleanup task is created at startup and its first sweep is *)
(* due at once; no file has been written yet.                              *)
Startup ==
  /\ now = 0
  /\ mtime = [p \in DOMAIN dir |-> 0]
  /\ task = [alive |-> TRUE, due |-> 0, errors |-> 0]

---------------------------------------------------------------------------
(* Requests *)

Idle ==
  [pc |-> "idle", kind |-> "none", fmt |-> "none", url |-> "none", preview |-> FALSE,
   limit |-> 0, max_bytes |-> 0, bytes_downloaded |-> 0, sent |-> 0, chunks |-> 0,
   fd |-> 0, pos |-> 0, content |-> <<>>, data_path |-> <<>>, query |-> <<>>,
   final_query |-> <<>>, avail |-> 0, df |-> Table(<<>>, 0),
   gets |-> 0, puts |-> 0, put_failed |-> FALSE, put_ok |-> FALSE, local |-> NoSource,
   limited |-> FALSE, bound |-> 0, body |-> JNull, extracted |-> <<>>,
   caller_headers |-> NoHeaders, credentials |-> NoCredentials, credentials_id |-> "",
   headers |-> NoHeaders, resp_clen |-> NoHeader, resp_size |-> 0,
   frame |-> <<>>, stats_ok |-> TRUE, schema |-> <<>>,
   http |-> 0, result |-> NoResult]

max_download(preview) == IF preview THEN PREVIEW_MAX_DOWNLOAD ELSE FULL_MAX_DOWNLOAD

(* limit: int = Query(..., le=settings.MAX_PREVIEW_ROWS) *)
QueryLimitOk(limit) == limit <= MAX_PREVIEW_ROWS

DeclaredTooLarge_Unchecked(clen, max_bytes) == FALSE

(* if content_length and int(content_length) > max_bytes *)
DeclaredTooLarge(clen, max_bytes) == clen # NoHeader /\ clen > max_bytes

(* str(e) of a transport timeout: the library may give an empty message. *)
TimeoutMessages == {"", "timed out"}

(* POST /parse/file up to the first await of _download_controlled. *)
StartParseFile(r, S, L) ==
  /\ req[r].pc = "idle"
  /\ \E u \in DOMAIN src, p \in BOOLEAN, l \in L :
       \E s \in (IF src[u] = NoSource THEN S ELSE {src[u]}) :
         \E f \in {s.fmt, "xml"} :
           LET me == [req[r] EXCEPT !.kind = "file", !.fmt = f, !.url = u,
                                    !.preview = p, !.limit = l]
           IN IF ~QueryLimitOk(l)
              THEN /\ req' = [req EXCEPT ![r] = [me EXCEPT !.pc = "rejected", !.http = 422]]
                   /\ UNCHANGED src
              ELSE IF f \notin SupportedFormats
              THEN /\ req' = [req EXCEPT ![r] = [me EXCEPT !.pc = "rejected", !.http = 400]]
                   /\ UNCHANGED src
              ELSE /\ req' = [req EXCEPT ![r] =
                                [me EXCEPT !.pc = "connect", !.max_bytes = max_download(p)]]
                   /\ src' = [src EXCEPT ![u] = s]
  /\ UNCHANGED <<dir, inode, now, mtime, task>>

(* except Exception as e: temp_path.unlink(missing_ok=True); raise e, and  *)
(* parse_from_url's except, and the handler's HTTPException(500).          *)
DownloadRaises(r, msg) ==
  /\ req' = [req EXCEPT ![r] = [@ EXCEPT !.pc = "done", !.fd = 0, !.http = 500,
                                         !.result = ParseFailure(msg)]]
  /\ dir' = unlink(dir, temp_path(req[r].url))
  /\ UNCHANGED <<src, inode, now, mtime, task>>

(* The response headers arrive: raise_for_status, the content-length       *)
(* check, open(temp_path, "wb").                                           *)
Connect(r) ==
  /\ req[r].kind = "file"
  /\ req[r].pc = "connect"
  /\ \E status_ok \in BOOLEAN :
       LET path == temp_path(req[r].url)
           s == src[req[r].url]
       IN IF ~status_ok THEN DownloadRaises(r, "Client error")
          ELSE IF DeclaredTooLarge(s.clen, req[r].max_bytes)
          THEN DownloadRaises(r, "File too large")
          ELSE /\ IF dir[path] # 0
                  THEN /\ inode' = [inode EXCEPT ![dir[path]] = <<>>]
                       /\ req' = [req EXCEPT ![r] = [@ EXCEPT !.pc = "stream",
                                                              !.fd = dir[path]]]
                       /\ UNCHANGED dir
                  ELSE /\ inode' = [inode EXCEPT ![r] = <<>>]
                       /\ dir' = [dir EXCEPT ![path] = r]
                       /\ req' = [req EXCEPT ![r] = [@ EXCEPT !.pc = "stream", !.fd = r]]
               /\ mtime' = [mtime EXCEPT ![path] = now]
               /\ UNCHANGED <<src, now, task>>

(* One iteration of async for chunk in response.aiter_bytes(CHUNK_SIZE).   *)
RecvChunk(r) ==
  /\ req[r].kind = "file"
  /\ req[r].pc = "stream"
  /\ LET s == src[req[r].url]
         me == req[r]
     IN /\ me.sent < s.total
        /\ \E n \in 1..Min(CHUNK_SIZE, s.total - me.sent) :
             LET chunk == SubSeq(Payload(s), me.sent + 1, me.sent + n)
                 bytes_downloaded == me.bytes_downloaded + n
                 remaining == me.max_bytes - (bytes_downloaded - n)
                 written == IF bytes_downloaded > me.max_bytes
                            THEN (IF remaining > 0 THEN SubSeq(chunk, 1, remaining) ELSE <<>>)
                            ELSE chunk
             IN /\ inode' = [inode EXCEPT ![me.fd] = WriteAt(@, me.pos, written)]
                /\ req' = [req EXCEPT ![r] =
                     [@ EXCEPT !.sent = me.sent + n, !.chunks = me.chunks + 1,
                               !.bytes_downloaded = bytes_downloaded,
                               !.pos = me.pos + Len(written),
                               !.pc = IF bytes_downloaded > me.max_bytes
                                      THEN "closing" ELSE "stream"]]
  /\ mtime' = [p \in DOMAIN mtime |->
                IF dir[p] = req[r].fd THEN now ELSE mtime[p]]
  /\ UNCHANGED <<src, dir, now, task>>

(* The stream ends: the loop and the with-blocks are left. *)
EndOfStream(r) ==
  /\ req[r].kind = "file"
  /\ req[r].pc = "stream"
  /\ req[r].sent = src[req[r].url].total
  /\ req' = [req EXCEPT ![r] = [@ EXCEPT !.pc = "closing", !.fd = 0]]
  /\ UNCHANGED <<src, dir, inode, now, mtime, task>>

(* FileParser._parse_local_file_native: the envelope lists df.columns as  *)
(* they are.                                                               *)
LocalSuccess(rows, columns, ncols, truncated) ==
  [returned |-> TRUE, success |-> TRUE, keys |-> {"success", "data", "metadata"},
   error |-> "", data |-> rows,
   metadata |-> [meta_keys |-> {"row_count", "column_count", "columns", "schema",
                                "was_truncated"},
                 row_count |-> Len(rows), column_count |-> ncols,
                 was_truncated |-> truncated,
                 columns |-> columns, schema |-> columns]]

local_was_truncated(preview, limit, n) == preview /\ n = limit

_parse_local_file_native(file, file_format, preview, limit, strict) ==
  LET csv == scan_csv_collect(file, preview \/ limit # 0, limit, strict)
      js == read_json(file, strict)
      capped == IF preview /\ Len(js.rows) > limit THEN head(js.rows, limit) ELSE js.rows
      doc == json_load(file)
      business_data == _process_geojson_features(geo_document(file.content),
                                                 preview, limit)
  IN IF file_format \in {"csv", "tsv"} THEN
       IF ~csv.ok THEN ParseFailure(csv.err)
       ELSE LocalSuccess(csv.rows, {}, csv.ncols,
                         local_was_truncated(preview, limit, Len(csv.rows)))
     ELSE IF file_format = "json" THEN
       IF ~js.ok THEN ParseFailure(js.err)
       ELSE LocalSuccess(capped, {}, js.ncols,
                         local_was_truncated(preview, limit, Len(capped)))
     ELSE IF file_format = "geojson" THEN
       IF ~doc.ok THEN ParseFailure(doc.err)
       ELSE IF ~business_data.ok THEN ParseFailure(business_data.err)
       ELSE LocalSuccess(business_data.rows, Columns(business_data.rows),
                         Cardinality(Columns(business_data.rows)),
                         local_was_truncated(preview, limit, Len(business_data.rows)))
     ELSE ParseFailure("Unsupported format")

(* FileParser.parse_local_file once the file has been found in DATA_DIR. *)
parse_local_file(file, file_format, preview, limit, strict) ==
  IF Len(file.content) > FULL_MAX_DOWNLOAD /\ ~preview
  THEN ParseFailure("Local file too large. Use preview mode.")
  ELSE _parse_local_file_native(file, file_format, preview, limit, strict)

(* GET /datasources/{id}/data: synchronous, no await. *)
LocalParse(r, S, L) ==
  /\ req[r].pc = "idle"
  /\ \E s \in S, p \in BOOLEAN, l \in L, strict \in BOOLEAN :
       LET file == [exists |-> TRUE, content |-> Payload(s)]
           result == parse_local_file(file, s.fmt, p, l, strict)
           me == [req[r] EXCEPT !.kind = "local", !.fmt = s.fmt, !.url = "local",
                                !.preview = p, !.limit = l, !.local = s]
       IN req' = [req EXCEPT ![r] =
                    IF ~QueryLimitOk(l) THEN [me EXCEPT !.pc = "rejected", !.http = 422]
                    ELSE [me EXCEPT !.pc = "done", !.result = result,
                                    !.http = IF result.success THEN 200 ELSE 404]]
  /\ UNCHANGED <<src, dir, inode, now, mtime, task>>

(* A timeout or a network error at an await of the download. *)
TransportError(r) ==
  /\ req[r].kind = "file"
  /\ req[r].pc \in {"connect", "stream", "closing"}
  /\ \E msg \in TimeoutMessages : DownloadRaises(r, msg)

(* _download_controlled returns temp_path; the parser reads it; finally:   *)
(* temp_path.unlink(missing_ok=True).                                      *)
ParseDownloaded(r) ==
  /\ req[r].kind = "file"
  /\ req[r].pc = "closing"
  /\ \E strict \in BOOLEAN :
       LET me == req[r]
           file == FileAt(dir, inode, temp_path(me.url))
           result == parse_from_url(file, me.fmt, me.preview, me.limit, strict)
       IN req' = [req EXCEPT ![r] =
                    [@ EXCEPT !.pc = "done", !.fd = 0, !.result = result,
                              !.http = IF result.success THEN 200 ELSE 500]]
  /\ dir' = unlink(dir, temp_path(req[r].url))
  /\ UNCHANGED <<src, inode, now, mtime, task>>

(* The request task is cancelled at an await (the caller disconnects):     *)
(* CancelledError is no Exception, so no except clause runs; in the file   *)
(* parsers the try/finally that unlinks temp_path has not been entered     *)
(* while the download is awaited.                                          *)
Cancel(r) ==
  /\ req[r].pc \in {"connect", "stream", "closing", "request", "upload"}
  /\ req' = [req EXCEPT ![r] = [@ EXCEPT !.pc = "cancelled", !.fd = 0, !.content = <<>>]]
  /\ UNCHANGED <<src, dir, inode, now, mtime, task>>

---------------------------------------------------------------------------
(* JSON values of API and SQL responses.  A row is an object, named by a   *)
(* number.                                                                 *)

JList(items) == [t |-> "list", items |-> items, fields |-> <<>>]
JDict(fields) == [t |-> "dict", items |-> <<>>, fields |-> fields]
JScalar == [t |-> "scalar", items |-> <<>>, fields |-> <<>>]

IsList(v) == v.t = "list"
IsDict(v) == v.t = "dict"

(* Python truthiness of a decoded JSON value (a scalar here is non-zero). *)
Truthy(v) ==
  IF IsList(v) THEN v.items # <<>>
  ELSE IF IsDict(v) THEN DOMAIN v.fields # {}
  ELSE v.t # "null"

NotFound == [t |-> "raised", items |-> <<>>, fields |-> <<>>]

(* FileParser.extract_nested_data; data_path is data_path.split('.'),      *)
(* <<>> for None or "".                                                    *)
RECURSIVE extract_nested_data(_, _)
extract_nested_data(target_data, data_path) ==
  IF data_path = <<>> THEN target_data
  ELSE IF Truthy(target_data) /\ IsDict(target_data)
          /\ Head(data_path) \in DOMAIN target_data.fields
       THEN extract_nested_data(target_data.fields[Head(data_path)], Tail(data_path))
       ELSE NotFound

(* FileParser.json_to_polars_via_temp: json.dump(data) to a temp file,     *)
(* pl.read_json of what was just dumped, the preview cap; the file is      *)
(* unlinked in the finally.                                                *)
json_to_polars_via_temp(data, preview, limit, strict) ==
  LET df == IF data = <<>> THEN (IF strict THEN Raised("empty JSON") ELSE Table(<<>>, 0))
            ELSE Table(data, SrcCols)
  IN IF ~df.ok THEN df
     ELSE IF preview /\ Len(df.rows) > limit THEN Table(head(df.rows, limit), df.ncols)
     ELSE df

json_temp_path == <<"json_data">>

---------------------------------------------------------------------------
(* ApiParser.parse_api_data *)

API_RESPONSE_LIMIT == 5
MaxApiRows == 3

ApiBodies ==
  {JScalar, JDict(<<>>), JDict([items |-> JScalar])}
  \cup {JList(Iota(n)) : n \in 0..MaxApiRows}
  \cup {JDict([items |-> JList(Iota(n))]) : n \in 0..MaxApiRows}
  \cup {JDict([result |-> JDict([items |-> JList(Iota(n))])]) : n \in {MaxApiRows}}

(* data_size: the bytes json.dumps(data) takes. *)
ApiResponses ==
  {[clen |-> c, json_ok |-> j, data |-> d, data_size |-> z] :
     c \in {NoHeader, API_RESPONSE_LIMIT + 1}, j \in BOOLEAN, d \in ApiBodies,
     z \in {1, API_RESPONSE_LIMIT + 1}}

DataPaths == {<<>>, <<"items">>, <<"result", "items">>}

(* POST /parse/api up to the await of client.request. *)
StartParseApi(r, L, H, C) ==
  /\ req[r].pc = "idle"
  /\ \E p \in BOOLEAN, l \in L, dp \in DataPaths, headers \in H, credentials \in C :
       LET me == [req[r] EXCEPT !.kind = "api", !.preview = p, !.limit = l,
                                !.data_path = dp, !.caller_headers = headers,
                                !.credentials = credentials]
           built == api_request_headers(headers, credentials)
       IN req' = [req EXCEPT ![r] =
                    IF ~QueryLimitOk(l) THEN [me EXCEPT !.pc = "rejected", !.http = 422]
                    ELSE IF built.exc # ""
                    THEN [me EXCEPT !.pc = "done", !.http = 500,
                                    !.result = ParseFailure(built.exc)]
                    ELSE [me EXCEPT !.pc = "request", !.headers = built.headers]]
  /\ UNCHANGED <<src, dir, inode, now, mtime, task>>

(* What a parser hands back: the envelope, and whether it went through    *)
(* json_to_polars_via_temp (which creates and unlinks its temp file).      *)
Outcome(envelope, used_temp) == [envelope |-> envelope, used_temp |-> used_temp]

(* with open(temp_path, 'w') ... finally: temp_path.unlink(missing_ok=True) *)
json_temp_after(d, r, used_temp) ==
  IF used_temp THEN unlink([d EXCEPT ![json_temp_path] = r], json_temp_path) ELSE d

(* The code of parse_api_data after the response has arrived. *)
parse_api_data(response, data_path, preview, limit, strict) ==
  LET target_data == extract_nested_data(response.data, data_path)
      capped == IF preview /\ Len(target_data.items) > limit
                THEN head(target_data.items, limit)
                ELSE target_data.items
      was_truncated == preview /\ Len(target_data.items) > limit
      df == json_to_polars_via_temp(capped, preview, limit, strict)
  IN IF DeclaredTooLarge(response.clen, API_RESPONSE_LIMIT)
     THEN Outcome(ParseFailure("API response too large (exceeds 50MB)"), FALSE)
     ELSE IF ~response.json_ok THEN Outcome(ParseFailure("Expecting value"), FALSE)
     ELSE IF target_data = NotFound
     THEN Outcome(ParseFailure("Data path not found in response"), FALSE)
     ELSE IF ~IsList(target_data)
     THEN Outcome(ParseFailure("API response is not an array"), FALSE)
     ELSE IF capped = <<>> THEN Outcome(ParseEmpty, FALSE)
     ELSE IF ~df.ok THEN Outcome(ParseFailure(df.err), TRUE)
     ELSE Outcome(ParseSuccess(df.rows, df.ncols, was_truncated), TRUE)

(* Rows the endpoint offered to the parser, before any cap. *)
ApiAvailable(response, data_path) ==
  LET target_data == extract_nested_data(response.data, data_path)
  IN IF target_data # NotFound /\ IsList(target_data) THEN Len(target_data.items) ELSE 0

(* The response arrives (or raise_for_status raises). *)
ApiResponse(r) ==
  /\ req[r].kind = "api"
  /\ req[r].pc = "request"
  /\ \E status_ok \in BOOLEAN, response \in ApiResponses, strict \in BOOLEAN :
       LET me == req[r]
           out == IF ~status_ok THEN Outcome(ParseFailure("Client error"), FALSE)
                  ELSE parse_api_data(response, me.data_path, me.preview, me.limit, strict)
       IN /\ req' = [req EXCEPT ![r] =
                      [@ EXCEPT !.pc = "done", !.result = out.envelope,
                                !.avail = ApiAvailable(response, me.data_path),
                                !.body = IF status_ok /\ response.json_ok
                                         THEN response.data ELSE JNull,
                                !.resp_clen = IF status_ok THEN response.clen ELSE NoHeader,
                                !.resp_size = IF status_ok /\ response.json_ok
                                              THEN response.data_size ELSE 0,
                                !.http = IF out.envelope.success THEN 200 ELSE 500]]
          /\ dir' = json_temp_after(dir, r, out.used_temp)
  /\ UNCHANGED <<src, inode, now, mtime, task>>

---------------------------------------------------------------------------
(* SqlParser.  A query is a sequence of characters. *)

Whitespace == {" "}

Lower(c) ==
  CASE c = "L" -> "l" [] c = "I" -> "i" [] c = "M" -> "m" [] c = "T" -> "t"
    [] c = "S" -> "s" [] OTHER -> c

lower(q) == [i \in 1..Len(q) |-> Lower(q[i])]

RECURSIVE lstrip(_)
lstrip(q) == IF q # <<>> /\ Head(q) \in Whitespace THEN lstrip(Tail(q)) ELSE q

RECURSIVE rstrip(_)
rstrip(q) ==
  IF q # <<>> /\ q[Len(q)] \in Whitespace THEN rstrip(SubSeq(q, 1, Len(q) - 1)) ELSE q

strip(q) == rstrip(lstrip(q))

(* sub in q *)
contains(q, sub) ==
  \E i \in 0..(Len(q) - Len(sub)) : SubSeq(q, i + 1, i + Len(sub)) = sub

endswith(q, c) == q # <<>> /\ q[Len(q)] = c

Digit(d) ==
  CASE d = 0 -> "0" [] d = 1 -> "1" [] d = 2 -> "2" [] d = 3 -> "3" [] d = 4 -> "4"
    [] d = 5 -> "5" [] d = 6 -> "6" [] d = 7 -> "7" [] d = 8 -> "8" [] OTHER -> "9"

RECURSIVE NatStr(_)
NatStr(n) == IF n < 10 THEN <<Digit(n)>> ELSE NatStr(n \div 10) \o <<Digit(n % 10)>>

(* f"{limit}" *)
IntStr(n) == IF n < 0 THEN <<"-">> \o NatStr(0 - n) ELSE NatStr(n)

_add_limit_to_query_Appending(query, limit) ==
  query \o <<" ", "L", "I", "M", "I", "T", " ">> \o IntStr(limit)

_add_limit_to_query(query, limit) ==
  LET trimmed_query == strip(query)
  IN IF contains(lower(trimmed_query), <<"l", "i", "m", "i", "t">>) THEN query
     ELSE IF endswith(trimmed_query, ";")
     THEN SubSeq(trimmed_query, 1, Len(trimmed_query) - 1)
            \o <<" ", "L", "I", "M", "I", "T", " ">> \o IntStr(limit) \o <<";">>
     ELSE trimmed_query \o <<" ", "L", "I", "M", "I", "T", " ">> \o IntStr(limit)

(* v is a str, int, float or bool *)
IsPrimitive(v) == v.t = "scalar"

ResponseKeys == <<"rows", "results", "data", "records">>

RECURSIVE first_list_key(_, _)
first_list_key(data, keys) ==
  IF keys = <<>> THEN ""
  ELSE IF Head(keys) \in DOMAIN data.fields /\ IsList(data.fields[Head(keys)])
       THEN Head(keys)
       ELSE first_list_key(data, Tail(keys))

(* The rows of the response. *)
_extract_rows_from_response(data) ==
  IF IsList(data) THEN data.items
  ELSE IF IsDict(data) THEN
    IF first_list_key(data, ResponseKeys) # ""
    THEN data.fields[first_list_key(data, ResponseKeys)].items
    ELSE IF \E k \in DOMAIN data.fields : IsPrimitive(data.fields[k]) THEN <<data>>
    ELSE <<>>
  ELSE <<>>

MaxSqlRows == 3

SqlBodies ==
  {JScalar, JNull, JDict(<<>>), JDict([id |-> JScalar]), JDict([meta |-> JDict(<<>>)]),
   JDict([max |-> JNull]), JDict([meta |-> JDict(<<>>), id |-> JScalar])}
  \cup {JList(Iota(n)) : n \in 0..MaxSqlRows}
  \cup {JDict([rows |-> JList(Iota(n))]) : n \in {MaxSqlRows}}
  \cup {JDict([rows |-> JScalar, records |-> JList(Iota(n))]) : n \in {1}}

Queries ==
  { <<"S">>, <<"S", ";">>, <<" ", "S", ";", " ">>, <<" ", "S">>,
    <<"S", " ", "l", "I", "m", "i", "t", " ", "1">>,
    <<"l", "i", "m", "i", "t", "s", ";">> }

NoQueryLimit == 0
QueryLimits == {NoQueryLimit, 5}

sql_was_truncated(preview, limit, n) == preview /\ n = limit

(* POST /parse/sql up to the await of client.post. *)
StartParseSql(r, L, C) ==
  /\ req[r].pc = "idle"
  /\ \E p \in BOOLEAN, l \in L, query \in Queries, query_limit \in QueryLimits,
        credentials \in C :
       LET final_query == IF p THEN _add_limit_to_query(query, l)
                          ELSE IF query_limit # NoQueryLimit
                          THEN _add_limit_to_query(query, query_limit)
                          ELSE query
           me == [req[r] EXCEPT !.kind = "sql", !.preview = p, !.limit = l,
                                !.query = query, !.final_query = final_query,
                                !.limited = p \/ query_limit # NoQueryLimit,
                                !.bound = IF p THEN l ELSE query_limit,
                                !.credentials = credentials]
           built == sql_request_headers(credentials)
       IN req' = [req EXCEPT ![r] =
                    IF ~QueryLimitOk(l)
                    THEN [req[r] EXCEPT !.kind = "sql", !.preview = p, !.limit = l,
                                        !.pc = "rejected", !.http = 422]
                    ELSE IF built.exc # ""
                    THEN [me EXCEPT !.pc = "done", !.http = 500,
                                    !.result = ParseFailure(built.exc)]
                    ELSE [me EXCEPT !.pc = "request", !.headers = built.headers]]
  /\ UNCHANGED <<src, dir, inode, now, mtime, task>>

(* The code of execute_query after the response has arrived. *)
execute_query(json_ok, data, preview, limit, strict) ==
  LET rows == _extract_rows_from_response(data)
      df == json_to_polars_via_temp(rows, preview, limit, strict)
  IN IF ~json_ok THEN Outcome(ParseFailure("Expecting value"), FALSE)
     ELSE IF rows = <<>> THEN Outcome(ParseEmpty, FALSE)
     ELSE IF ~df.ok THEN Outcome(ParseFailure(df.err), TRUE)
     ELSE Outcome(ParseSuccess(df.rows, df.ncols,
                               sql_was_truncated(preview, limit, Len(df.rows))), TRUE)

SqlResponse(r) ==
  /\ req[r].kind = "sql"
  /\ req[r].pc = "request"
  /\ \E status_ok \in BOOLEAN, json_ok \in BOOLEAN, data \in SqlBodies, strict \in BOOLEAN,
        data_size \in {1, API_RESPONSE_LIMIT + 1} :
       LET me == req[r]
           out == IF ~status_ok THEN Outcome(ParseFailure("Client error"), FALSE)
                  ELSE execute_query(json_ok, data, me.preview, me.limit, strict)
       IN /\ req' = [req EXCEPT ![r] =
                      [@ EXCEPT !.pc = "done", !.result = out.envelope,
                                !.avail = Len(_extract_rows_from_response(data)),
                                !.body = IF status_ok /\ json_ok THEN data ELSE JNull,
                                !.resp_size = IF status_ok /\ json_ok THEN data_size ELSE 0,
                                !.extracted = IF status_ok /\ json_ok
                                              THEN _extract_rows_from_response(data)
                                              ELSE <<>>,
                                !.http = IF out.envelope.success THEN 200 ELSE 500]]
          /\ dir' = json_temp_after(dir, r, out.used_temp)
  /\ UNCHANGED <<src, inode, now, mtime, task>>

(* A timeout or a network error at the await of an API or SQL request. *)
RequestError(r) ==
  /\ req[r].kind \in {"api", "sql"}
  /\ req[r].pc = "request"
  /\ \E msg \in TimeoutMessages :
       req' = [req EXCEPT ![r] = [@ EXCEPT !.pc = "done", !.http = 500,
                                           !.result = ParseFailure(msg)]]
  /\ UNCHANGED <<src, dir, inode, now, mtime, task>>

---------------------------------------------------------------------------
(* FileConverter.convert *)

ConvFailure(msg) ==
  [returned |-> TRUE, success |-> FALSE, keys |-> {"success", "error"}, error |-> msg,
   data |-> <<>>,
   metadata |-> [meta_keys |-> {}, row_count |-> 0, column_count |-> 0,
                 was_truncated |-> FALSE,
                 columns |-> {}, schema |-> {}]]

ConvSuccess(rows, columns) ==
  [returned |-> TRUE, success |-> TRUE, keys |-> {"success", "metadata"}, error |-> "",
   data |-> <<>>,
   metadata |-> [meta_keys |-> {"rows", "columns", "column_schema", "file_size_mb",
                                "processing_time_seconds", "source_type"},
                 row_count |-> rows, column_count |-> columns, was_truncated |-> FALSE,
                 columns |-> {}, schema |-> {}]]

(* The fields ConversionMetadata requires (all are Field(...)). *)
MetadataFields ==
  {"rows", "columns", "column_schema", "file_size_mb", "processing_time_seconds",
   "source_type"}

(* The keyword arguments convert passes to ConversionMetadata. *)
ConvertKwargs ==
  {"rows", "columns", "schema", "file_size_mb", "processing_time_seconds", "source_type"}

(* ConversionMetadata(...): a required field that is not given raises. *)
MetadataValid(kwargs) == MetadataFields \subseteq kwargs

(* FileConverter._process_geojson: no preview, no limit; an empty list     *)
(* gives the four-column empty frame.                                      *)
conv_geo_row(i, feature) ==
  LET properties == properties_of(feature)
      geometry == geometry_of(feature)
  IN Merge(Merge(row_head(i, properties, geometry), properties),
           row_tail(i, geometry, GeomJsonV(feature.geometry)))

RECURSIVE conv_geo_loop(_, _, _)
conv_geo_loop(features, i, business_data) ==
  IF i >= Len(features) THEN Table(business_data, 0)
  ELSE IF FeatureRaises(features[i + 1])
  THEN Raised("'NoneType' object has no attribute 'get'")
  ELSE conv_geo_loop(features, i + 1,
                     Append(business_data, conv_geo_row(i, features[i + 1])))

_process_geojson(geo_data) ==
  IF geo_data.type # "FeatureCollection"
  THEN Raised("Invalid GeoJSON: Expected FeatureCollection")
  ELSE LET business_data == conv_geo_loop(geo_data.features, 0, <<>>)
       IN IF ~business_data.ok THEN business_data
          ELSE IF business_data.rows = <<>> THEN Table(<<>>, 4)
          ELSE Table(business_data.rows, Cardinality(Columns(business_data.rows)))

(* FileConverter._parse_file(content, file_format) *)
_parse_file(content, file_format, strict) ==
  LET file == [exists |-> TRUE, content |-> content]
      doc == json_load(file)
  IN IF file_format \in {"csv", "tsv"} THEN scan_csv_collect(file, FALSE, 0, strict)
     ELSE IF file_format = "json" THEN read_json(file, strict)
     ELSE IF file_format = "geojson" THEN
       IF ~doc.ok THEN doc
       ELSE _process_geojson(geo_document(content))
     ELSE Raised("Unsupported file format")

StartConvert(r, S) ==
  /\ req[r].pc = "idle"
  /\ \E u \in DOMAIN src :
       \E s \in (IF src[u] = NoSource THEN S ELSE {src[u]}) :
         \E f \in {s.fmt, "xml"} :
           /\ req' = [req EXCEPT ![r] =
                        [@ EXCEPT !.kind = "convert", !.fmt = f, !.url = u,
                                  !.max_bytes = MAX_DOWNLOAD_SIZE, !.pc = "connect",
                                  !.gets = @ + 1]]
           /\ src' = [src EXCEPT ![u] = s]
  /\ UNCHANGED <<dir, inode, now, mtime, task>>

(* convert's except Exception: return {"success": False, "error": str(e)} *)
ConvertRaises(r, msg) ==
  req' = [req EXCEPT ![r] = [@ EXCEPT !.pc = "done", !.content = <<>>,
                                      !.result = ConvFailure(msg)]]

(* _download_file: the response headers arrive. *)
ConvConnect(r) ==
  /\ req[r].kind = "convert"
  /\ req[r].pc = "connect"
  /\ \E status_ok \in BOOLEAN :
       IF ~status_ok THEN ConvertRaises(r, "Client error")
       ELSE IF DeclaredTooLarge(src[req[r].url].clen, MAX_DOWNLOAD_SIZE)
       THEN ConvertRaises(r, "File too large")
       ELSE req' = [req EXCEPT ![r] = [@ EXCEPT !.pc = "stream"]]
  /\ UNCHANGED <<src, dir, inode, now, mtime, task>>

(* async for chunk in response.aiter_bytes(...): content += chunk *)
ConvRecvChunk(r) ==
  /\ req[r].kind = "convert"
  /\ req[r].pc = "stream"
  /\ LET s == src[req[r].url]
         me == req[r]
     IN /\ me.sent < s.total
        /\ \E n \in 1..Min(CHUNK_SIZE, s.total - me.sent) :
             req' = [req EXCEPT ![r] =
                       [@ EXCEPT !.sent = me.sent + n, !.chunks = me.chunks + 1,
                                 !.bytes_downloaded = me.bytes_downloaded + n,
                                 !.content = me.content
                                   \o SubSeq(Payload(s), me.sent + 1, me.sent + n),
                                 !.pc = "check"]]
  /\ UNCHANGED <<src, dir, inode, now, mtime, task>>

(* if len(content) > FileConverter.MAX_DOWNLOAD_SIZE: raise ValueError *)
ConvCheck(r) ==
  /\ req[r].kind = "convert"
  /\ req[r].pc = "check"
  /\ IF Len(req[r].content) > MAX_DOWNLOAD_SIZE
     THEN ConvertRaises(r, "File size exceeds 500MB limit during download")
     ELSE req' = [req EXCEPT ![r] = [@ EXCEPT !.pc = "stream"]]
  /\ UNCHANGED <<src, dir, inode, now, mtime, task>>

ConvEndOfStream(r) ==
  /\ req[r].kind = "convert"
  /\ req[r].pc = "stream"
  /\ req[r].sent = src[req[r].url].total
  /\ req' = [req EXCEPT ![r] = [@ EXCEPT !.pc = "closing"]]
  /\ UNCHANGED <<src, dir, inode, now, mtime, task>>

(* _download_file returns; _parse_file; _convert_to_parquet; the PUT of    *)
(* _upload_parquet is awaited.                                             *)
ConvParse(r) ==
  /\ req[r].kind = "convert"
  /\ req[r].pc = "closing"
  /\ \E strict \in BOOLEAN :
       LET df == _parse_file(req[r].content, req[r].fmt, strict)
       IN IF ~df.ok THEN ConvertRaises(r, df.err)
          ELSE req' = [req EXCEPT ![r] = [@ EXCEPT !.pc = "upload", !.df = df,
                                                   !.puts = @ + 1]]
  /\ UNCHANGED <<src, dir, inode, now, mtime, task>>

(* _upload_parquet raises (raise_for_status or a transport error); the   *)
(* exception reaches convert's except branch.                              *)
UploadRaises(r, msg) ==
  req' = [req EXCEPT ![r] = [@ EXCEPT !.pc = "done", !.content = <<>>,
                                      !.put_failed = TRUE,
                                      !.result = ConvFailure(msg)]]

ConvUpload_Retrying(r) ==
  /\ req[r].kind = "convert"
  /\ req[r].pc = "upload"
  /\ \E status_ok \in BOOLEAN :
       IF ~status_ok /\ req[r].puts < 2
       THEN req' = [req EXCEPT ![r] = [@ EXCEPT !.puts = @ + 1, !.put_failed = TRUE]]
       ELSE IF ~status_ok THEN UploadRaises(r, "Server error")
       ELSE ConvertRaises(r, "1 validation error for ConversionMetadata")
  /\ UNCHANGED <<src, dir, inode, now, mtime, task>>

(* The PUT answers; ConversionMetadata(...) is built; convert returns. *)
ConvUpload(r) ==
  /\ req[r].kind = "convert"
  /\ req[r].pc = "upload"
  /\ \E status_ok \in BOOLEAN :
       IF ~status_ok THEN UploadRaises(r, "Server error")
       ELSE IF ~MetadataValid(ConvertKwargs)
       THEN req' = [req EXCEPT ![r] =
                      [@ EXCEPT !.pc = "done", !.content = <<>>, !.put_ok = TRUE,
                                !.result = ConvFailure(
                                             "1 validation error for ConversionMetadata")]]
       ELSE req' = [req EXCEPT ![r] =
                      [@ EXCEPT !.pc = "done", !.put_ok = TRUE,
                                !.result = ConvSuccess(Len(req[r].df.rows),
                                                       req[r].df.ncols)]]
  /\ UNCHANGED <<src, dir, inode, now, mtime, task>>

(* A timeout or a network error at an await of convert. *)
ConvTransportError(r) ==
  /\ req[r].kind = "convert"
  /\ req[r].pc \in {"connect", "stream", "closing", "upload"}
  /\ \E msg \in TimeoutMessages :
       IF req[r].pc = "upload" THEN UploadRaises(r, msg) ELSE ConvertRaises(r, msg)
  /\ UNCHANGED <<src, dir, inode, now, mtime, task>>

---------------------------------------------------------------------------
(* ApiConverter.convert *)

MAX_RESPONSE_SIZE == 10

ApiConvResponses ==
  {[clen |-> c, json_ok |-> j, data |-> d, data_size |-> z] :
     c \in {NoHeader, MAX_RESPONSE_SIZE + 1}, j \in BOOLEAN, d \in ApiBodies,
     z \in {1, MAX_RESPONSE_SIZE + 1}}

(* The path loop of _extract_data: a part that is not found raises. *)
RECURSIVE navigate(_, _)
navigate(target_data, path_parts) ==
  IF path_parts = <<>> THEN target_data
  ELSE IF Truthy(target_data) /\ IsDict(target_data)
          /\ Head(path_parts) \in DOMAIN target_data.fields
       THEN navigate(target_data.fields[Head(path_parts)], Tail(path_parts))
       ELSE NotFound

(* ApiConverter._extract_data *)
_extract_data(api_data, data_path) ==
  LET target_data == navigate(api_data, data_path)
  IN IF target_data = NotFound THEN Raised("Data path not found in API response")
     ELSE IF IsList(target_data) THEN Table(target_data.items, 0)
     ELSE IF IsDict(target_data) THEN Table(<<target_data>>, 0)
     ELSE Raised("API response must contain an array or object")

(* ApiConverter._create_dataframe: no data gives the one-column frame      *)
(* {"_empty": []}.                                                         *)
_create_dataframe(data) ==
  IF data = <<>> THEN Table(<<>>, 1) ELSE Table(data, SrcCols)

(* ApiConverter._fetch_api_data after the response has arrived, then       *)
(* _extract_data and _create_dataframe.                                    *)
api_convert_frame(response, data_path) ==
  LET target_data == _extract_data(response.data, data_path)
  IN IF DeclaredTooLarge(response.clen, MAX_RESPONSE_SIZE)
     THEN Raised("API response too large")
     ELSE IF ~response.json_ok THEN Raised("Expecting value")
     ELSE IF response.data_size > MAX_RESPONSE_SIZE
     THEN Raised("API response too large after parsing")
     ELSE IF ~target_data.ok THEN target_data
     ELSE _create_dataframe(target_data.rows)

(* ApiConverter.convert up to the await of client.request. *)
StartApiConvert(r, H) ==
  /\ req[r].pc = "idle"
  /\ \E dp \in DataPaths, headers \in H, credentials_id \in {"", "cred-1"} :
       req' = [req EXCEPT ![r] =
                 [@ EXCEPT !.kind = "apiconvert", !.data_path = dp,
                           !.max_bytes = MAX_RESPONSE_SIZE,
                           !.caller_headers = headers, !.credentials_id = credentials_id,
                           !.headers = convert_request_headers(headers, credentials_id),
                           !.pc = "request", !.gets = @ + 1]]
  /\ UNCHANGED <<src, dir, inode, now, mtime, task>>

(* The API response arrives; the frame is built and encoded; the PUT of    *)
(* _upload_parquet is awaited.                                             *)
ApiConvFetch(r) ==
  /\ req[r].kind = "apiconvert"
  /\ req[r].pc = "request"
  /\ \E status_ok \in BOOLEAN, response \in ApiConvResponses :
       LET df == api_convert_frame(response, req[r].data_path)
           seen == [req EXCEPT ![r] =
                      [@ EXCEPT !.body = IF status_ok /\ response.json_ok
                                         THEN response.data ELSE JNull,
                                !.resp_clen = IF status_ok THEN response.clen ELSE NoHeader,
                                !.resp_size = IF status_ok /\ response.json_ok
                                              THEN response.data_size ELSE 0]]
       IN IF ~status_ok
          THEN req' = [seen EXCEPT ![r] = [@ EXCEPT !.pc = "done", !.content = <<>>,
                                                    !.result = ConvFailure("Client error")]]
          ELSE IF ~df.ok
          THEN req' = [seen EXCEPT ![r] = [@ EXCEPT !.pc = "done", !.content = <<>>,
                                                    !.result = ConvFailure(df.err)]]
          ELSE req' = [seen EXCEPT ![r] = [@ EXCEPT !.pc = "upload", !.df = df,
                                                    !.puts = @ + 1]]
  /\ UNCHANGED <<src, dir, inode, now, mtime, task>>

(* The PUT answers; ConversionMetadata(...) is built; convert returns. *)
ApiConvUpload(r) ==
  /\ req[r].kind = "apiconvert"
  /\ req[r].pc = "upload"
  /\ \E status_ok \in BOOLEAN :
       IF ~status_ok THEN UploadRaises(r, "Server error")
       ELSE IF ~MetadataValid(ConvertKwargs)
       THEN req' = [req EXCEPT ![r] =
                      [@ EXCEPT !.pc = "done", !.content = <<>>, !.put_ok = TRUE,
                                !.result = ConvFailure(
                                             "1 validation error for ConversionMetadata")]]
       ELSE req' = [req EXCEPT ![r] =
                      [@ EXCEPT !.pc = "done", !.put_ok = TRUE,
                                !.result = ConvSuccess(Len(req[r].df.rows),
                                                       req[r].df.ncols)]]
  /\ UNCHANGED <<src, dir, inode, now, mtime, task>>

(* A timeout or a network error at an await of ApiConverter.convert. *)
ApiConvTransportError(r) ==
  /\ req[r].kind = "apiconvert"
  /\ req[r].pc \in {"request", "upload"}
  /\ \E msg \in TimeoutMessages :
       IF req[r].pc = "upload" THEN UploadRaises(r, msg) ELSE ConvertRaises(r, msg)
  /\ UNCHANGED <<src, dir, inode, now, mtime, task>>

---------------------------------------------------------------------------

Init ==
  /\ req = [r \in {1} |-> Idle]
  /\ src = [u \in {"u1"} |-> NoSource]
  /\ dir = [p \in {temp_path("u1"), json_temp_path} |-> 0]
  /\ inode = [i \in {1} |-> <<>>]
  /\ Startup

Next ==
  \/ \E r \in {1} : StartParseFile(r, Sources, LimitInputs)
  \/ \E r \in {1} : Connect(r)
  \/ \E r \in {1} : RecvChunk(r)
  \/ \E r \in {1} : EndOfStream(r)
  \/ \E r \in {1} : TransportError(r)
  \/ \E r \in {1} : ParseDownloaded(r)
  \/ \E r \in {1} : Cancel(r)
  \/ \E r \in {1} : StartParseApi(r, LimitInputs, {NoHeaders}, {NoCredentials})
  \/ \E r \in {1} : ApiResponse(r)
  \/ \E r \in {1} : StartParseSql(r, LimitInputs, {NoCredentials})
  \/ \E r \in {1} : SqlResponse(r)
  \/ \E r \in {1} : RequestError(r)
  \/ \E r \in {1} : StartConvert(r, Sources)
  \/ \E r \in {1} : ConvConnect(r)
  \/ \E r \in {1} : ConvRecvChunk(r)
  \/ \E r \in {1} : ConvCheck(r)
  \/ \E r \in {1} : ConvEndOfStream(r)
  \/ \E r \in {1} : ConvParse(r)
  \/ \E r \in {1} : ConvUpload(r)
  \/ \E r \in {1} : ConvTransportError(r)
  \/ \E r \in {1} : StartApiConvert(r, {NoHeaders})
  \/ \E r \in {1} : ApiConvFetch(r)
  \/ \E r \in {1} : ApiConvUpload(r)
  \/ \E r \in {1} : ApiConvTransportError(r)
  \/ \E r \in {1} : LocalParse(r, Sources, LimitInputs)

Spec == Init /\ [][Next]_vars

---------------------------------------------------------------------------
(* Two concurrent file parse requests on one event loop. *)

ConcSources == { Source(f, 3, NoHeader, TRUE) : f \in {"csv", "json"} }

ConcLimits == {2}

InitConc ==
  /\ req = [r \in {1, 2} |-> Idle]
  /\ src = [u \in {"u1", "u2"} |-> NoSource]
  /\ dir = [p \in {temp_path("u1"), temp_path("u2"), json_temp_path} |-> 0]
  /\ inode = [i \in {1, 2} |-> <<>>]
  /\ Startup

NextConc ==
  \/ \E r \in {1, 2} : StartParseFile(r, ConcSources, ConcLimits)
  \/ \E r \in {1, 2} : Connect(r)
  \/ \E r \in {1, 2} : RecvChunk(r)
  \/ \E r \in {1, 2} : EndOfStream(r)
  \/ \E r \in {1, 2} : TransportError(r)
  \/ \E r \in {1, 2} : ParseDownloaded(r)
  \/ \E r \in {1, 2} : Cancel(r)

SpecConc == InitConc /\ [][NextConc]_vars

---------------------------------------------------------------------------
(* Claims *)

ParseKinds == {"file", "api", "sql"}

Ended(r) == req[r].pc \in {"done", "cancelled", "rejected"}

(* C1: a download whose streamed byte count exceeds the byte budget ends   *)
(* in a failure envelope without rows, in parse and in conversion mode.    *)
C1_OverBudgetFails ==
  \A r \in DOMAIN req :
    (/\ req[r].kind \in {"file", "convert"}
     /\ req[r].pc = "done"
     /\ req[r].bytes_downloaded > req[r].max_bytes)
    => (~req[r].result.success /\ req[r].result.data = <<>>)

(* C2: a request whose source declares a content-length above the budget, *)
(* once the response headers have been handled, has ended with            *)
(* success=false, has read no body chunk, and has no temp file.            *)
C2_DeclaredTooLargeFailsEarly ==
  \A r \in DOMAIN req :
    (/\ req[r].kind \in {"file", "convert"}
     /\ req[r].pc \in {"stream", "check", "closing", "upload", "done"}
     /\ src[req[r].url].clen # NoHeader
     /\ src[req[r].url].clen > req[r].max_bytes)
    => (/\ req[r].pc = "done"
        /\ req[r].result.returned
        /\ ~req[r].result.success
        /\ req[r].chunks = 0
        /\ req[r].pos = 0
        /\ req[r].content = <<>>
        /\ dir[temp_path(req[r].url)] = 0)

C2_Witness ==
  \E r \in DOMAIN req :
    /\ req[r].kind = "file"
    /\ req[r].pc = "done"
    /\ src[req[r].url].clen > req[r].max_bytes
    /\ req[r].result.error = "File too large"
    /\ req[r].chunks = 0

(* C3: the payload bytes a fetcher holds (written to the temp file, or     *)
(* accumulated in memory) never exceed its byte budget.                    *)
C3_HeldWithinBudget ==
  \A r \in DOMAIN req :
    /\ req[r].kind = "file" => req[r].pos <= req[r].max_bytes
    /\ req[r].kind = "convert" => Len(req[r].content) <= req[r].max_bytes

(* C4: once a parse request has ended, on any exit path, its temp file no  *)
(* longer exists.                                                          *)
C4_NoTempFileAfterRequest ==
  \A r \in DOMAIN req :
    (req[r].kind \in ParseKinds /\ Ended(r))
    => (/\ dir[json_temp_path] = 0
        /\ req[r].kind = "file" => dir[temp_path(req[r].url)] = 0)

(* The envelopes a file parse request can return when it runs alone. *)
AloneResults(me) ==
  LET s == src[me.url]
      file == [exists |-> TRUE,
               content |-> SubSeq(Payload(s), 1, Min(s.total, me.max_bytes))]
  IN {ParseFailure("Client error")}
     \cup {ParseFailure(msg) : msg \in TimeoutMessages}
     \cup {parse_from_url(file, me.fmt, me.preview, me.limit, strict) : strict \in BOOLEAN}

(* C5: under any interleaving of two parse requests, while a request       *)
(* downloads and until it has parsed, its temp file exists and holds       *)
(* exactly what it wrote, and its result is one it can produce alone.      *)
C5_RequestsIndependent ==
  \A r \in DOMAIN req :
    /\ (req[r].kind = "file" /\ req[r].pc \in {"stream", "closing"})
       => (/\ dir[temp_path(req[r].url)] # 0
           /\ inode[dir[temp_path(req[r].url)]]
                = SubSeq(Payload(src[req[r].url]), 1, req[r].pos))
    /\ (req[r].kind = "file" /\ req[r].pc = "done")
       => req[r].result \in AloneResults(req[r])

(* C6: a preview with limit L returns at most L rows. *)
C6_PreviewRowCountAtMostLimit ==
  \A r \in DOMAIN req :
    (/\ req[r].kind \in ParseKinds
     /\ req[r].pc = "done"
     /\ req[r].preview
     /\ req[r].result.success)
    => req[r].result.metadata.row_count <= req[r].limit

(* C7: in a preview with a limit L > 0 of a CSV/TSV, JSON, API or SQL      *)
(* source, was_truncated is true exactly when the source offers more than  *)
(* L rows.                                                                 *)
C7_TruncatedIffMoreRows ==
  \A r \in DOMAIN req :
    (/\ req[r].kind \in ParseKinds
     /\ req[r].fmt # "geojson"
     /\ req[r].pc = "done"
     /\ req[r].preview
     /\ req[r].limit > 0
     /\ req[r].bytes_downloaded <= req[r].max_bytes
     /\ req[r].result.success)
    => (req[r].result.metadata.was_truncated <=> req[r].avail > req[r].limit)

(* C8: no parse request with a limit outside 0 < limit <= MAX_PREVIEW_ROWS *)
(* gets past validation.                                                   *)
C8_LimitValidated ==
  \A r \in DOMAIN req :
    (req[r].kind \in ParseKinds /\ req[r].pc \notin {"idle", "rejected"})
    => (0 < req[r].limit /\ req[r].limit <= MAX_PREVIEW_ROWS)

(* C9: in parse mode with preview=false and a limit L > 0, at most L rows  *)
(* are returned.                                                           *)
C9_NonPreviewCappedAtLimit ==
  \A r \in DOMAIN req :
    (/\ req[r].kind \in ParseKinds
     /\ req[r].pc = "done"
     /\ ~req[r].preview
     /\ req[r].limit > 0
     /\ req[r].result.success)
    => req[r].result.metadata.row_count <= req[r].limit

(* C10: a returned envelope has success without an error, or an error      *)
(* with a non-empty message and neither rows nor dataset metadata.         *)
C10_EnvelopeExclusive ==
  \A r \in DOMAIN req :
    req[r].result.returned
    => (/\ req[r].result.success => "error" \notin req[r].result.keys
        /\ ~req[r].result.success
           => (/\ "error" \in req[r].result.keys
               /\ req[r].result.error # ""
               /\ req[r].result.data = <<>>
               /\ req[r].result.metadata.row_count = 0))

ConvertKinds == {"convert", "apiconvert"}

(* C11: a conversion issues at most one source fetch and at most one PUT,  *)
(* and once its PUT has failed it has returned success=false.              *)
C11_UploadFailureFailsNoRetry ==
  \A r \in DOMAIN req :
    req[r].kind \in ConvertKinds
    => (/\ req[r].gets <= 1
        /\ req[r].puts <= 1
        /\ req[r].put_failed
           => (/\ req[r].pc = "done"
               /\ req[r].result.returned
               /\ ~req[r].result.success))

C11_Witness ==
  \E r \in DOMAIN req :
    /\ req[r].kind = "convert"
    /\ req[r].pc = "done"
    /\ req[r].put_failed
    /\ req[r].gets = 1
    /\ req[r].puts = 1
    /\ req[r].result.error = "Server error"

---------------------------------------------------------------------------
(* GeoJSON documents of every shape, parsed from a URL, parsed from a      *)
(* local file, and converted.                                              *)

MaxFeatures == 2

RECURSIVE SeqsUpTo(_, _)
SeqsUpTo(S, n) ==
  IF n = 0 THEN {<<>>}
  ELSE LET shorter == SeqsUpTo(S, n - 1)
       IN shorter \cup {Append(q, x) : q \in shorter, x \in S}

GeoSources ==
  { [fmt |-> "geojson", total |-> Len(d) + 1, clen |-> NoHeader, valid |-> TRUE,
     top |-> t, doc |-> d] :
      d \in SeqsUpTo(1..Len(FeatureKinds), MaxFeatures),
      t \in {"FeatureCollection", "Feature", "None"} }

GeoLimits == {1, 2}

InitGeo ==
  /\ req = [r \in {1} |-> Idle]
  /\ src = [u \in {"u1"} |-> NoSource]
  /\ dir = [p \in {temp_path("u1"), json_temp_path} |-> 0]
  /\ inode = [i \in {1} |-> <<>>]
  /\ Startup

NextGeo ==
  \/ \E r \in {1} : StartParseFile(r, GeoSources, GeoLimits)
  \/ \E r \in {1} : Connect(r)
  \/ \E r \in {1} : RecvChunk(r)
  \/ \E r \in {1} : EndOfStream(r)
  \/ \E r \in {1} : ParseDownloaded(r)
  \/ \E r \in {1} : LocalParse(r, GeoSources, GeoLimits)
  \/ \E r \in {1} : StartConvert(r, GeoSources)
  \/ \E r \in {1} : ConvConnect(r)
  \/ \E r \in {1} : ConvRecvChunk(r)
  \/ \E r \in {1} : ConvCheck(r)
  \/ \E r \in {1} : ConvEndOfStream(r)
  \/ \E r \in {1} : ConvParse(r)
  \/ \E r \in {1} : ConvUpload(r)

SpecGeo == InitGeo /\ [][NextGeo]_vars

---------------------------------------------------------------------------
(* Conversions arriving while others are in progress: the start of       *)
(* convert and the arrival of the source's response headers.               *)

MAX_CONCURRENT_CONVERSIONS == 5

LoadSources == { Source("csv", 1, NoHeader, TRUE) }

Callers == 1..(MAX_CONCURRENT_CONVERSIONS + 1)

InitLoad ==
  /\ req = [r \in Callers |-> Idle]
  /\ src = [u \in {"u1"} |-> NoSource]
  /\ dir = [p \in {temp_path("u1"), json_temp_path} |-> 0]
  /\ inode = [i \in {1} |-> <<>>]
  /\ Startup

NextLoad ==
  \/ \E r \in Callers : StartConvert(r, LoadSources)
  \/ \E r \in Callers : ConvConnect(r)

SpecLoad == InitLoad /\ [][NextLoad]_vars

(* A conversion between the start of convert and its return. *)
InProgress(r) ==
  /\ req[r].kind \in ConvertKinds
  /\ req[r].pc \notin {"idle", "done", "cancelled", "rejected"}

(* C12: at every moment at most MAX_CONCURRENT_CONVERSIONS conversions are *)
(* in progress.                                                            *)
C12_ConversionsBounded ==
  Cardinality({r \in DOMAIN req : InProgress(r)}) <= MAX_CONCURRENT_CONVERSIONS

---------------------------------------------------------------------------
(* The GeoJSON flattener, seen from the rows a request has produced.       *)

GeoRequest(r) == req[r].fmt = "geojson" /\ req[r].kind \in {"file", "local", "convert"}

(* The source document of request r. *)
GeoSource(r) == IF req[r].kind = "local" THEN req[r].local ELSE src[req[r].url]

(* The features of that document, in input order. *)
GeoFeatures(r) == [x \in 1..Len(GeoSource(r).doc) |-> FeatureOf(GeoSource(r).doc[x])]

(* The rows the flattener has returned to request r: the data of a         *)
(* successful parse, or the frame a conversion is about to upload.         *)
GeoRows(r) ==
  IF ~GeoRequest(r) THEN <<>>
  ELSE IF req[r].kind = "convert"
       THEN (IF req[r].pc = "upload" THEN req[r].df.rows ELSE <<>>)
       ELSE (IF req[r].pc = "done" /\ req[r].result.success
             THEN req[r].result.data ELSE <<>>)

HasProperty(feature, key) == key \in DOMAIN properties_of(feature)

(* C13 as stated: the row at 0-based position i has feature_id = i + 1,    *)
(* whatever the properties of the features contain.                        *)
C13_FeatureIdSequentialAlways ==
  \A r \in DOMAIN req : \A x \in 1..Len(GeoRows(r)) :
    GeoRows(r)[x]["feature_id"] = IntV(x)

(* C13 amended: the row at 0-based position i has feature_id = i + 1       *)
(* unless the feature at i has a property named feature_id, whose value    *)
(* the row then carries.                                                   *)
C13_FeatureIdSequential ==
  \A r \in DOMAIN req : \A x \in 1..Len(GeoRows(r)) :
    LET row == GeoRows(r)[x]
        feature == GeoFeatures(r)[x]
    IN IF HasProperty(feature, "feature_id")
       THEN row["feature_id"] = properties_of(feature)["feature_id"]
       ELSE row["feature_id"] = IntV(x)

C13_Witness ==
  \E r \in DOMAIN req :
    /\ Len(GeoRows(r)) = 2
    /\ ~HasProperty(GeoFeatures(r)[2], "feature_id")
    /\ HasProperty(GeoFeatures(r)[2], "population")
    /\ GeoRows(r)[1]["feature_id"] = IntV(1)
    /\ GeoRows(r)[2]["feature_id"] = IntV(2)

(* The columns the flattener computes, by their place in the row literal. *)
DefaultColumns == {"feature_id", "name", "geometry_type", "area_type"}
LateColumns == {"coordinate_count", "has_interior_rings"}

(* C14 as stated: for each of the six computed columns, a property of the  *)
(* feature with the same key replaces the computed value in the row.       *)
C14_PropertyReplacesEveryComputed ==
  \A r \in DOMAIN req : \A x \in 1..Len(GeoRows(r)) :
    \A key \in DefaultColumns \cup LateColumns :
      HasProperty(GeoFeatures(r)[x], key)
        => GeoRows(r)[x][key] = properties_of(GeoFeatures(r)[x])[key]

(* C14 amended: a property named feature_id, name, geometry_type or        *)
(* area_type replaces the computed value in the row; coordinate_count and  *)
(* has_interior_rings always carry the computed value, whatever the        *)
(* properties contain.                                                     *)
C14_PropertyReplacesDefaults ==
  \A r \in DOMAIN req : \A x \in 1..Len(GeoRows(r)) :
    LET row == GeoRows(r)[x]
        feature == GeoFeatures(r)[x]
    IN /\ \A key \in DefaultColumns :
            HasProperty(feature, key) => row[key] = properties_of(feature)[key]
       /\ row["coordinate_count"] = IntV(_count_coordinates(geometry_of(feature)))
       /\ row["has_interior_rings"] = BoolV(_has_interior_rings(geometry_of(feature)))

C14_Witness ==
  \E r \in DOMAIN req :
    /\ Len(GeoRows(r)) = 2
    /\ HasProperty(GeoFeatures(r)[1], "geometry_type")
    /\ GeoRows(r)[1]["geometry_type"] = StrV("Custom")
    /\ HasProperty(GeoFeatures(r)[2], "coordinate_count")
    /\ GeoRows(r)[2]["coordinate_count"] = IntV(1)

(* A GeoJSON preview that has returned its rows. *)
GeoPreviewDone(r) ==
  /\ GeoRequest(r)
  /\ req[r].kind \in {"file", "local"}
  /\ req[r].preview
  /\ req[r].pc = "done"
  /\ req[r].result.success

(* C15: a GeoJSON preview with limit L over T features processes exactly   *)
(* the first min(L, T) features in input order, and was_truncated is true  *)
(* exactly when fewer than T features were processed.                      *)
C15_PreviewFirstNTruncatedIffFewer ==
  \A r \in DOMAIN req :
    GeoPreviewDone(r) =>
      LET rows == req[r].result.data
          T == Len(GeoFeatures(r))
      IN /\ Len(rows) = Min(req[r].limit, T)
         /\ \A x \in 1..Len(rows) : rows[x]["_feature_index"] = IntV(x - 1)
         /\ req[r].result.metadata.was_truncated <=> (Len(rows) < T)

(* What a request reports when the fetch of the document itself fails. *)
FetchErrors == TimeoutMessages \cup {"Client error"}

InvalidGeoJSON == "Invalid GeoJSON: Expected FeatureCollection"

(* C16: a GeoJSON document whose top-level type is not FeatureCollection   *)
(* (a missing type included) yields no rows: the request ends with         *)
(* success = false, no data and the invalid-GeoJSON error (or the error of *)
(* a failed fetch), and a conversion never gets a frame to upload.         *)
C16_NotFeatureCollectionFails ==
  \A r \in DOMAIN req :
    (GeoRequest(r) /\ GeoSource(r).top # "FeatureCollection") =>
      /\ req[r].pc # "upload"
      /\ req[r].pc = "done" =>
            /\ ~req[r].result.success
            /\ req[r].result.data = <<>>
            /\ req[r].result.error \in
                  {InvalidGeoJSON} \cup (IF req[r].kind = "local" THEN {} ELSE FetchErrors)

C16_Witness ==
  \E r \in DOMAIN req :
    /\ GeoRequest(r)
    /\ req[r].kind = "file"
    /\ GeoSource(r).top = "None"
    /\ Len(GeoSource(r).doc) = 2
    /\ req[r].pc = "done"
    /\ ~req[r].result.success
    /\ req[r].result.error = InvalidGeoJSON

(* The geometry type of a feature as the document gives it: "" when the   *)
(* geometry is absent, null or has no type.                                *)
GivenType(feature) ==
  IF feature.geometry \in {ABSENT, NULL} THEN ""
  ELSE IF ~Geometries[feature.geometry].has_type THEN ""
  ELSE Geometries[feature.geometry].type

(* The fixed mapping of the area type. *)
AreaTypeOf(type) ==
  IF type = "Point" THEN "Location"
  ELSE IF type \in {"LineString", "MultiLineString"} THEN "Route/Boundary"
  ELSE IF type \in {"Polygon", "MultiPolygon"} THEN "Area/Region"
  ELSE "Geographic Feature"

(* C17: every feature of a FeatureCollection yields a row; its             *)
(* geometry_type is the type of the geometry or "Unknown", its area_type   *)
(* follows the fixed mapping, and a feature whose geometry or properties   *)
(* are absent or null has geometry_type "Unknown", area_type "Geographic   *)
(* Feature" and coordinate_count 0 (a property of the same name aside)     *)
(* instead of failing the request.                                         *)
C17_EveryFeatureYieldsRow ==
  \A r \in DOMAIN req :
    (GeoRequest(r) /\ GeoSource(r).top = "FeatureCollection") =>
      /\ (req[r].kind \in {"file", "local"} /\ req[r].pc = "done") =>
            (req[r].result.success \/ req[r].result.error \in FetchErrors)
      /\ \A x \in 1..Len(GeoRows(r)) :
            LET row == GeoRows(r)[x]
                feature == GeoFeatures(r)[x]
                type == GivenType(feature)
            IN /\ (feature.properties \in {ABSENT, NULL, 1}) =>
                    /\ row["geometry_type"] = StrV(IF type = "" THEN "Unknown" ELSE type)
                    /\ row["area_type"] = StrV(AreaTypeOf(type))
               /\ (feature.geometry \in {ABSENT, NULL}) =>
                    row["coordinate_count"] = IntV(0)

(* A list of exactly two numbers. *)
IsPair(coords) ==
  /\ coords.t = "list"
  /\ Len(coords.items) = 2
  /\ \A x \in 1..Len(coords.items) : coords.items[x].t = "num"

(* The number of leaf coordinate pairs under a coordinates value. *)
RECURSIVE LeafPairs(_)
LeafPairs(coords) ==
  IF coords.t # "list" THEN 0
  ELSE IF IsPair(coords) THEN 1
  ELSE SumSeq([x \in 1..Len(coords.items) |-> LeafPairs(coords.items[x])])

(* The coordinate_count the walk gives for a geometry. *)
WalkCount(geometry) ==
  IF geometry.has_coordinates THEN LeafPairs(geometry.coordinates) ELSE 0

(* C18 as stated: coordinate_count is the number of leaf pairs found by    *)
(* the recursive walk, every Point geometry yields 1 and a geometry        *)
(* without coordinates yields 0.                                           *)
C18_CountLeafPairsEveryPointOne ==
  \A r \in DOMAIN req : \A x \in 1..Len(GeoRows(r)) :
    LET count == GeoRows(r)[x]["coordinate_count"]
        geometry == geometry_of(GeoFeatures(r)[x])
    IN /\ count = IntV(WalkCount(geometry))
       /\ (geometry.has_type /\ geometry.type = "Point") => count = IntV(1)
       /\ ~geometry.has_coordinates => count = IntV(0)

(* C18 amended: coordinate_count is the number of leaf pairs found by the  *)
(* recursive walk; a Point whose coordinates are exactly two numbers       *)
(* yields 1, and a geometry without coordinates yields 0.                  *)
C18_CountLeafPairs ==
  \A r \in DOMAIN req : \A x \in 1..Len(GeoRows(r)) :
    LET count == GeoRows(r)[x]["coordinate_count"]
        geometry == geometry_of(GeoFeatures(r)[x])
    IN /\ count = IntV(WalkCount(geometry))
       /\ (geometry.has_type /\ geometry.type = "Point" /\ geometry.has_coordinates
             /\ IsPair(geometry.coordinates)) => count = IntV(1)
       /\ ~geometry.has_coordinates => count = IntV(0)

C18_Witness ==
  \E r \in DOMAIN req :
    /\ Len(GeoRows(r)) = 2
    /\ geometry_of(GeoFeatures(r)[1]).type = "Point"
    /\ GeoRows(r)[1]["coordinate_count"] = IntV(1)
    /\ geometry_of(GeoFeatures(r)[2]).type = "Polygon"
    /\ GeoRows(r)[2]["coordinate_count"] = IntV(8)

(* C19: in every GeoJSON parse result, from a URL or from a local file,   *)
(* the columns whose name starts with '_' are in each data row and are     *)
(* absent from metadata.columns, from metadata.schema and from             *)
(* column_count.                                                           *)
C19_HiddenColumnsNotListed ==
  \A r \in DOMAIN req :
    (GeoRequest(r) /\ req[r].kind \in {"file", "local"} /\ req[r].pc = "done"
       /\ req[r].result.success) =>
      LET rows == req[r].result.data
          metadata == req[r].result.metadata
      IN /\ \A x \in 1..Len(rows) : {"_geometry", "_feature_index"} \subseteq DOMAIN rows[x]
         /\ \A col \in metadata.columns \cup metadata.schema : ~StartsWithUnderscore(col)
         /\ metadata.column_count =
              Cardinality({col \in Columns(rows) : ~StartsWithUnderscore(col)})

---------------------------------------------------------------------------
(* The query SqlParser sends, against the query it was given.              *)

LIMIT == <<"L", "I", "M", "I", "T">>

(* The number of places where sub occurs in q. *)
Occurrences(q, sub) ==
  Cardinality({i \in 0..(Len(q) - Len(sub)) : SubSeq(q, i + 1, i + Len(sub)) = sub})

(* A request whose query went through _add_limit_to_query(query, bound). *)
LimitApplied(r) ==
  /\ req[r].kind = "sql"
  /\ req[r].pc \in {"request", "done"}
  /\ req[r].limited

(* q with the clause LIMIT N before its last character if that is a        *)
(* semicolon, at its end otherwise.                                        *)
WithLimit(q, N) ==
  IF endswith(q, ";")
  THEN SubSeq(q, 1, Len(q) - 1) \o <<" ">> \o LIMIT \o <<" ">> \o IntStr(N) \o <<";">>
  ELSE q \o <<" ">> \o LIMIT \o <<" ">> \o IntStr(N)

(* C20 as stated: a query containing "limit" in any case is returned       *)
(* unchanged; any other query q gets exactly one clause LIMIT N, before    *)
(* the semicolon q ends with or else at the end of q, the rest of q        *)
(* preserved.                                                              *)
C20_LimitAddedTextPreserved ==
  \A r \in DOMAIN req :
    LimitApplied(r) =>
      LET q == req[r].query
          result == req[r].final_query
      IN IF contains(lower(q), lower(LIMIT)) THEN result = q
         ELSE /\ Occurrences(lower(result), lower(LIMIT)) = 1
              /\ result = WithLimit(q, req[r].bound)

(* C20 amended: a query containing "limit" in any case is returned         *)
(* unchanged; any other query is first stripped of leading and trailing    *)
(* whitespace and the stripped text gets exactly one clause LIMIT N,       *)
(* before the semicolon it ends with or else at its end, the rest of the   *)
(* stripped text preserved.                                                *)
C20_LimitAddedToStripped ==
  \A r \in DOMAIN req :
    LimitApplied(r) =>
      LET q == req[r].query
          result == req[r].final_query
      IN IF contains(lower(q), lower(LIMIT)) THEN result = q
         ELSE /\ Occurrences(lower(result), lower(LIMIT)) = 1
              /\ result = WithLimit(strip(q), req[r].bound)

C20_Witness ==
  \E r \in DOMAIN req :
    /\ LimitApplied(r)
    /\ req[r].query = <<" ", "S", ";", " ">>
    /\ req[r].bound = 2
    /\ req[r].final_query = <<"S", " ", "L", "I", "M", "I", "T", " ", "2", ";">>

---------------------------------------------------------------------------
(* The rows SqlParser takes from a decoded response.                       *)

(* A request whose response was decoded and handed to                      *)
(* _extract_rows_from_response.                                            *)
SqlDecoded(r) ==
  /\ req[r].kind = "sql"
  /\ req[r].pc = "done"
  /\ req[r].body # JNull \/ req[r].result.success

(* The first of rows, results, data, records under which data holds an     *)
(* array; "" when there is none.                                           *)
ArrayKey(data) ==
  IF ~IsDict(data) THEN ""
  ELSE LET holds == {x \in 1..Len(ResponseKeys) :
                       /\ ResponseKeys[x] \in DOMAIN data.fields
                       /\ IsList(data.fields[ResponseKeys[x]])}
       IN IF holds = {} THEN ""
          ELSE ResponseKeys[CHOOSE x \in holds : \A y \in holds : x <= y]

(* A single flat record: an object with at least one field, no array under *)
(* the four keys and no nested array or object among its values.           *)
FlatRecord(data) ==
  /\ IsDict(data)
  /\ ArrayKey(data) = ""
  /\ DOMAIN data.fields # {}
  /\ \A k \in DOMAIN data.fields : ~IsList(data.fields[k]) /\ ~IsDict(data.fields[k])

(* C21: _extract_rows_from_response returns the input when it is an array, *)
(* the array under the first of the four keys that holds one when the      *)
(* input is an object, a one-element list wrapping the object when it is a *)
(* single flat record, and an empty list for every other input.            *)
C21_RowsExtracted ==
  \A r \in DOMAIN req :
    SqlDecoded(r) =>
      LET data == req[r].body
          rows == req[r].extracted
      IN IF IsList(data) THEN rows = data.items
         ELSE IF ArrayKey(data) # "" THEN rows = data.fields[ArrayKey(data)].items
         ELSE IF FlatRecord(data) THEN Len(rows) = 1 /\ rows[1] = data
         ELSE rows = <<>>

---------------------------------------------------------------------------
(* API and SQL requests with every credential and every caller header map. *)

AuthLimits == {1}

InitAuth ==
  /\ req = [r \in {1} |-> Idle]
  /\ src = [u \in {"u1"} |-> NoSource]
  /\ dir = [p \in {temp_path("u1"), json_temp_path} |-> 0]
  /\ inode = [i \in {1} |-> <<>>]
  /\ Startup

NextAuth ==
  \/ \E r \in {1} : StartParseApi(r, AuthLimits, CallerHeaders, Credentials)
  \/ \E r \in {1} : ApiResponse(r)
  \/ \E r \in {1} : StartParseSql(r, AuthLimits, Credentials)
  \/ \E r \in {1} : SqlResponse(r)
  \/ \E r \in {1} : RequestError(r)
  \/ \E r \in {1} : StartApiConvert(r, CallerHeaders)
  \/ \E r \in {1} : ApiConvFetch(r)
  \/ \E r \in {1} : ApiConvUpload(r)
  \/ \E r \in {1} : ApiConvTransportError(r)

SpecAuth == InitAuth /\ [][NextAuth]_vars

(* A request whose outbound HTTP request has been handed to the client. *)
Sent(r) ==
  /\ req[r].kind \in {"api", "sql", "apiconvert"}
  /\ req[r].pc \in {"request", "upload"} \/ (req[r].pc = "done" /\ req[r].headers # NoHeaders)

(* The headers the credentials of request r give rise to, on their own. *)
Synthesized(r) ==
  IF req[r].kind = "apiconvert" THEN _get_auth_headers(req[r].credentials_id)
  ELSE IF ~req[r].credentials.given THEN NoHeaders
  ELSE _add_auth_headers(req[r].kind, NoHeaders, req[r].credentials).headers

ApiKeyGiven(r) ==
  /\ req[r].kind \in {"api", "sql"}
  /\ req[r].pc \in {"request", "done"}
  /\ req[r].credentials.given
  /\ req[r].credentials.type = "api-key"
  /\ req[r].credentials.value.has
  /\ req[r].credentials.value.raw # ""

(* The headers of the outbound request that the adapter's fixed headers    *)
(* do not account for.                                                     *)
AddedHeaders(r) ==
  {name \in DOMAIN req[r].headers :
     \/ name \notin (DOMAIN req[r].caller_headers \cup {"Accept", "Content-Type"})
     \/ (name \in DOMAIN req[r].caller_headers
           /\ req[r].headers[name] # req[r].caller_headers[name])}

(* C23: with an api-key credential of non-empty value, on the API and the  *)
(* SQL adapter, a value that parses as an object with apiKey sets the      *)
(* header named by its header field (default X-API-Key) to apiKey, every   *)
(* other value sets X-API-Key to the raw value, and exactly one auth       *)
(* header is added.                                                        *)
C23_ApiKeyHeader ==
  \A r \in DOMAIN req :
    (ApiKeyGiven(r) /\ req[r].caller_headers = NoHeaders) =>
      LET value == req[r].credentials.value
          structured == value.json.t = "object" /\ "apiKey" \in DOMAIN value.json.fields
          name == IF structured /\ "header" \in DOMAIN value.json.fields
                  THEN value.json.fields["header"].text ELSE "X-API-Key"
      IN /\ Sent(r)
         /\ AddedHeaders(r) = {name}
         /\ req[r].headers[name] =
              (IF structured THEN value.json.fields["apiKey"] ELSE Plain(value.raw))

(* A request of an API or SQL adapter that carries a basic credential    *)
(* with a non-empty value and has left the header step.                    *)
BasicGiven(r) ==
  /\ req[r].kind \in {"api", "sql"}
  /\ req[r].pc \in {"request", "done"}
  /\ req[r].credentials.given
  /\ req[r].credentials.type = "basic"
  /\ req[r].credentials.value.has
  /\ req[r].credentials.value.raw # ""

(* C24: with a basic credential of non-empty value, a value that parses as *)
(* an object with username and password sets Authorization to "Basic " and *)
(* the base64 of "username:password"; every other value sets it to "Basic " *)
(* and the raw value; an Authorization header is added in all cases.       *)
C24_BasicHeader ==
  \A r \in DOMAIN req :
    BasicGiven(r) =>
      LET value == req[r].credentials.value
          structured == /\ value.json.t = "object"
                        /\ {"username", "password"} \subseteq DOMAIN value.json.fields
      IN /\ Sent(r)
         /\ "Authorization" \in DOMAIN req[r].headers
         /\ req[r].headers["Authorization"] =
              (IF structured
               THEN HeaderValue("Basic", "", <<value.json.fields["username"].text,
                                               value.json.fields["password"].text>>)
               ELSE HeaderValue("Basic", value.raw, <<>>))

(* The headers of the request before _add_auth_headers is called. *)
HeadersBeforeAuth(r) ==
  IF req[r].kind = "api" THEN req[r].caller_headers @@ Accept
  ELSE ("Content-Type" :> Plain("application/json")) @@ Accept

(* C25: whatever the credential (any kind, unknown and missing included,   *)
(* any value, empty and malformed included), _add_auth_headers returns     *)
(* without raising and the request is sent; with an unknown kind or an     *)
(* empty value the header map is left exactly as it was.                   *)
C25_AuthNeverRaises ==
  \A r \in DOMAIN req :
    (req[r].kind \in {"api", "sql"} /\ req[r].pc \in {"request", "done"}) =>
      /\ Sent(r)
      /\ ( \/ ~req[r].credentials.given
           \/ req[r].credentials.type \notin {"bearer", "api-key", "basic"}
           \/ ~req[r].credentials.value.has
           \/ req[r].credentials.value.raw = "" )
         => req[r].headers = HeadersBeforeAuth(r)

C25_Witness ==
  \E r \in DOMAIN req :
    /\ req[r].kind = "api"
    /\ req[r].pc = "done"
    /\ req[r].result.success
    /\ req[r].credentials.type = "api-key"
    /\ req[r].credentials.value.raw = "[1]"
    /\ req[r].headers = req[r].caller_headers @@ Accept

---------------------------------------------------------------------------
(* Empty sources.                                                          *)

(* A well-formed document with no data row: zero bytes or a header alone   *)
(* for CSV and TSV, an empty array for JSON, a FeatureCollection with no   *)
(* feature for GeoJSON.                                                    *)
EmptySource(s) ==
  /\ s.valid
  /\ s.top = "FeatureCollection"
  /\ s.doc = <<>>
  /\ s.fmt \in {"csv", "tsv"} \/ (s.fmt \in {"json", "geojson"} /\ s.total = 1)

(* What a request ends with when the transfer itself fails. *)
TransferErrors == FetchErrors \cup {"File too large", "Server error"}

(* An envelope of success with no rows and at most one column. *)
EmptyTable(result) ==
  /\ result.success
  /\ result.metadata.row_count = 0
  /\ result.metadata.column_count \in {0, 1}

(* C26: an empty source of every supported kind (CSV, TSV, JSON, GeoJSON   *)
(* with zero features, an API returning an empty array, SQL returning zero *)
(* rows), parsed or converted, yields success = true with row count 0 and  *)
(* column count 0 or 1.                                                    *)
C26_EmptySourceSucceeds ==
  \A r \in DOMAIN req :
    /\ (req[r].kind = "local" /\ req[r].pc = "done" /\ EmptySource(req[r].local))
         => EmptyTable(req[r].result)
    /\ (req[r].kind \in {"file", "convert"} /\ req[r].fmt = src[req[r].url].fmt
          /\ req[r].pc = "done" /\ EmptySource(src[req[r].url]))
         => (EmptyTable(req[r].result) \/ req[r].result.error \in TransferErrors)
    /\ (req[r].kind = "convert" /\ req[r].fmt = src[req[r].url].fmt
          /\ req[r].pc = "upload" /\ EmptySource(src[req[r].url]))
         => (req[r].df.rows = <<>> /\ req[r].df.ncols \in {0, 1})
    /\ (req[r].kind \in {"api", "sql", "apiconvert"} /\ req[r].pc = "done"
          /\ req[r].body = JList(<<>>) /\ req[r].data_path = <<>>
          /\ req[r].resp_clen = NoHeader /\ req[r].resp_size = 1)
         => (EmptyTable(req[r].result) \/ req[r].result.error \in TransferErrors)

---------------------------------------------------------------------------
(* Response budgets of the API and SQL adapters.                           *)

(* The response budget of the adapter serving request r. *)
ResponseBudget(r) ==
  IF req[r].kind = "apiconvert" THEN MAX_RESPONSE_SIZE ELSE API_RESPONSE_LIMIT

(* C27: an API or SQL response whose parsed JSON serializes to more bytes  *)
(* than the response budget makes the operation fail with success = false  *)
(* and no rows, with or without a declared content-length.                 *)
C27_OversizedResponseFails ==
  \A r \in DOMAIN req :
    (req[r].kind \in {"api", "sql", "apiconvert"}
       /\ req[r].resp_size > ResponseBudget(r)) =>
      /\ req[r].pc = "done"
      /\ ~req[r].result.success
      /\ req[r].result.data = <<>>

---------------------------------------------------------------------------
(* Schema generation: FileConverter._generate_schema and                   *)
(* ApiConverter._generate_schema over a materialized frame.                *)

MaxFrameCols == 2
MaxFrameRows == 2

(* str(dtype) of the columns polars infers. *)
Dtypes == {"Int64", "String", "Boolean"}

FrameColumnNames == {"name", "_note", "_empty"}

Null == "null"

Cells == {Null, "value"}

(* The frames of h rows and n columns with distinct names. *)
FramesOf(n, h) ==
  {f \in [1..n -> [name : FrameColumnNames, dtype : Dtypes, values : [1..h -> Cells]]] :
     \A i, j \in 1..n : f[i].name = f[j].name => i = j}

Frames == UNION {FramesOf(n, h) : n \in 0..MaxFrameCols, h \in 0..MaxFrameRows}

(* dtype.is_numeric() *)
is_numeric(dtype) == dtype \in {"Int64", "Float64"}

(* df.select(pl.col(col).is_null().any()).item() *)
is_null_any(column) == \E i \in DOMAIN column.values : column.values[i] = Null

(* field_info: keys are the keys the dict holds; nullable is read only     *)
(* when "nullable" is one of them.                                         *)
FieldInfo(column, with_nullable, nullable) ==
  [name |-> column.name, type |-> column.dtype, polars_type |-> column.dtype,
   keys |-> {"name", "type", "polars_type"}
              \cup (IF with_nullable THEN {"nullable"} ELSE {}),
   nullable |-> with_nullable /\ nullable]

ApiConverter_generate_schema_AlwaysNullable(df) ==
  LET listed == SelectSeq(df, LAMBDA column :
                    ~(StartsWithUnderscore(column.name) /\ column.name # "_empty"))
  IN [i \in DOMAIN listed |-> FieldInfo(listed[i], TRUE, TRUE)]

(* ApiConverter._generate_schema: every column but the hidden ones other   *)
(* than _empty, each with its nullable flag.                               *)
ApiConverter_generate_schema(df) ==
  LET listed == SelectSeq(df, LAMBDA column :
                    ~(StartsWithUnderscore(column.name) /\ column.name # "_empty"))
  IN [i \in DOMAIN listed |-> FieldInfo(listed[i], TRUE, is_null_any(listed[i]))]

(* FileConverter._generate_schema: nullable is set inside the numeric      *)
(* branch only, and skipped when describe() raises there.                  *)
FileConverter_generate_schema(df, stats_ok) ==
  LET listed == SelectSeq(df, LAMBDA column : ~StartsWithUnderscore(column.name))
  IN [i \in DOMAIN listed |->
        IF is_numeric(listed[i].dtype) /\ stats_ok
        THEN FieldInfo(listed[i], TRUE, is_null_any(listed[i]))
        ELSE FieldInfo(listed[i], FALSE, FALSE)]

FileGenerateSchema(r) ==
  /\ req[r].pc = "frame"
  /\ \E stats_ok \in BOOLEAN :
       req' = [req EXCEPT ![r] = [@ EXCEPT !.pc = "done", !.kind = "fileschema",
                                           !.stats_ok = stats_ok,
                                           !.schema = FileConverter_generate_schema(
                                                        req[r].frame, stats_ok)]]
  /\ UNCHANGED <<src, dir, inode, now, mtime, task>>

ApiGenerateSchema(r) ==
  /\ req[r].pc = "frame"
  /\ req' = [req EXCEPT ![r] = [@ EXCEPT !.pc = "done", !.kind = "apischema",
                                          !.schema = ApiConverter_generate_schema(
                                                       req[r].frame)]]
  /\ UNCHANGED <<src, dir, inode, now, mtime, task>>

InitSchema ==
  /\ \E df \in Frames : req = [r \in {1} |-> [Idle EXCEPT !.pc = "frame", !.frame = df]]
  /\ src = [u \in {"u1"} |-> NoSource]
  /\ dir = [p \in {temp_path("u1"), json_temp_path} |-> 0]
  /\ inode = [i \in {1} |-> <<>>]
  /\ Startup

NextSchema ==
  \/ \E r \in {1} : FileGenerateSchema(r)
  \/ \E r \in {1} : ApiGenerateSchema(r)

SpecSchema == InitSchema /\ [][NextSchema]_vars

(* The columns of a frame whose name does not start with the hidden prefix. *)
VisibleFrameColumns(df) == SelectSeq(df, LAMBDA column : ~StartsWithUnderscore(column.name))

(* An entry carrying the column's name, its type and the flag that is true *)
(* exactly when the column holds a null.                                   *)
DescribesColumn(entry, column) ==
  /\ entry.name = column.name
  /\ entry.type = column.dtype
  /\ "nullable" \in entry.keys
  /\ entry.nullable <=> (\E i \in DOMAIN column.values : column.values[i] = Null)

(* C28: the generated schema has one entry per visible column, in order,   *)
(* each with the column's type and a nullable flag that is true exactly    *)
(* when the column holds at least one null, whatever the column's type.    *)
C28_SchemaEntryPerVisibleColumn ==
  \A r \in DOMAIN req :
    (req[r].kind \in {"fileschema", "apischema"} /\ req[r].pc = "done") =>
      /\ Len(req[r].schema) = Len(VisibleFrameColumns(req[r].frame))
      /\ \A i \in DOMAIN req[r].schema :
            DescribesColumn(req[r].schema[i], VisibleFrameColumns(req[r].frame)[i])

---------------------------------------------------------------------------
(* The artifact and the answer of a conversion.                            *)

ConvertReturned(r) ==
  req[r].kind \in ConvertKinds /\ req[r].pc = "done" /\ req[r].result.returned

(* C29: a conversion that returns success = false has completed no PUT of  *)
(* the artifact; once the PUT has succeeded the call returns success =     *)
(* true with metadata.                                                     *)
C29_FailureLeavesNoArtifact ==
  \A r \in DOMAIN req :
    /\ (ConvertReturned(r) /\ ~req[r].result.success) => ~req[r].put_ok
    /\ (ConvertReturned(r) /\ req[r].put_ok) =>
         (req[r].result.success /\ "metadata" \in req[r].result.keys)

---------------------------------------------------------------------------
(* The background sweep: CleanupService.start_cleanup_task, created by     *)
(* lifespan on Path("/tmp/polars_server").  Time is counted in sweep       *)
(* intervals (interval_minutes = 30), so max_age_hours = 1 is two units.   *)

SWEEP_INTERVAL == 1
MAX_AGE == 2

MaxClock == 4

(* Files an earlier process left in /tmp/polars_server. *)
ServerPaths == {<<"server", "a">>, <<"server", "b">>}

(* The directory a path lies in: _download_controlled and                  *)
(* json_to_polars_via_temp write below gettempdir()/polars_streaming.      *)
parent(path) == IF path[1] = "server" THEN "polars_server" ELSE "polars_streaming"

(* temp_dir of lifespan *)
SWEPT_DIR == "polars_server"

(* temp_dir.iterdir(): the files of the directory, in any order. *)
iterdir(d, temp_dir) ==
  LET files == {path \in DOMAIN d : d[path] # 0 /\ parent(path) = temp_dir}
  IN {order \in [1..Cardinality(files) -> files] :
        \A i, j \in DOMAIN order : order[i] = order[j] => i = j}

(* file_modified < cutoff_time, cutoff_time = now - max_age *)
expired(mt, path, t) == mt[path] < t - MAX_AGE

(* The loop of cleanup_temp_files over order; stat or unlink raises at     *)
(* position fail_at (0: nowhere) and the except branch ends the sweep.     *)
RECURSIVE sweep_from(_, _, _, _, _, _)
sweep_from(d, mt, t, order, i, fail_at) ==
  IF i > Len(order) \/ i = fail_at THEN d
  ELSE sweep_from(IF expired(mt, order[i], t) THEN unlink(d, order[i]) ELSE d,
                  mt, t, order, i + 1, fail_at)

cleanup_temp_files(d, mt, t, order, fail_at) == sweep_from(d, mt, t, order, 1, fail_at)

(* One turn of the loop of start_cleanup_task: the sweep, then the sleep   *)
(* is started.  cleanup_temp_files has no await, so the sweep is one step. *)
Sweep ==
  /\ task.alive
  /\ now >= task.due
  /\ \E order \in iterdir(dir, SWEPT_DIR) :
       \E fail_at \in 0..Len(order) :
         /\ dir' = cleanup_temp_files(dir, mtime, now, order, fail_at)
         /\ task' = [task EXCEPT !.due = Min(now + SWEEP_INTERVAL, MaxClock),
                                 !.errors = IF fail_at # 0 THEN 1 ELSE 0]
  /\ UNCHANGED <<req, src, inode, now, mtime>>

(* Time passes. *)
Tick ==
  /\ now < MaxClock
  /\ now' = now + 1
  /\ UNCHANGED <<req, src, dir, inode, mtime, task>>

SweepSources == { Source(f, 3, NoHeader, TRUE) : f \in {"csv", "json"} }

SweepLimits == {2}

InitSweep ==
  /\ req = [r \in {1} |-> Idle]
  /\ src = [u \in {"u1"} |-> NoSource]
  /\ \E left \in SUBSET ServerPaths :
       dir = [p \in {temp_path("u1"), json_temp_path} \cup ServerPaths |->
                IF p = <<"server", "a">> /\ p \in left THEN 2
                ELSE IF p = <<"server", "b">> /\ p \in left THEN 3
                ELSE 0]
  /\ inode = [i \in {1, 2, 3} |-> <<>>]
  /\ Startup

NextSweep ==
  \/ \E r \in {1} : StartParseFile(r, SweepSources, SweepLimits)
  \/ \E r \in {1} : Connect(r)
  \/ \E r \in {1} : RecvChunk(r)
  \/ \E r \in {1} : EndOfStream(r)
  \/ \E r \in {1} : TransportError(r)
  \/ \E r \in {1} : ParseDownloaded(r)
  \/ \E r \in {1} : Cancel(r)
  \/ Sweep
  \/ Tick

(* The event loop runs the cleanup task whenever its sleep is over, and    *)
(* time passes.                                                            *)
SpecSweep == InitSweep /\ [][NextSweep]_vars /\ WF_vars(Sweep) /\ WF_vars(Tick)

(* A temp file of a parse request that is still there after every request  *)
(* has ended.                                                              *)
LeftBehind(path) ==
  /\ parent(path) = "polars_streaming"
  /\ dir[path] # 0
  /\ \A r \in DOMAIN req : Ended(r)

OlderThanMaxAge(path) == now - mtime[path] > MAX_AGE

(* C30: under a fair schedule of the sweep every temp file a parse request *)
(* left behind is eventually deleted once it is older than the max age;    *)
(* the sweep never deletes a file that is not older than the max age; and  *)
(* the cleanup task stays alive whatever happens inside a sweep.           *)
C30_SweepReclaimsLeftovers ==
  /\ \A path \in {temp_path("u1"), json_temp_path} :
       (LeftBehind(path) /\ OlderThanMaxAge(path)) ~> (dir[path] = 0)
  /\ [][\A path \in DOMAIN dir :
          (req' = req /\ dir[path] # 0 /\ dir'[path] = 0) => OlderThanMaxAge(path)]_vars
  /\ [](task.alive)

====
